---- MODULE Spec2Model ----
(***************************************************************************)
(* Verification model of the CAPF signaling-game core:                     *)
(*   - the investment / Nash solver (simulation/investment.ts),            *)
(*   - the one-round simulator (simulation/engine.ts),                     *)
(*   - the equilibrium cutoffs (simulation/equilibrium.ts).                *)
(*                                                                         *)
(* Numbers.  TLC has 32-bit integers only, so every JavaScript number is   *)
(* a fixed-point integer.  In solveGTO investment levels are counted in    *)
(* 1/IScale of one investment unit and expected utilities in units of      *)
(* 1e-9 (the tolerance of verifyNE).  In the round simulator capabilities, *)
(* signals, costs and payoffs are counted in 1/CScale.                     *)
(***************************************************************************)
EXTENDS Integers, Sequences, FiniteSets, TLC

(***************************************************************************)
(* Bounds of the model (not program constants).                            *)
(***************************************************************************)
IScale == 1000      \* fixed-point resolution of an investment level
PeakMax == 2        \* utility surfaces peak between 1 and PeakMax + 1
DropMax == 20       \* steepest utility slope, in 1e-9 per investment unit
Height == 100       \* utility at the peak, in 1e-9
CScale == 100       \* fixed-point resolution of capabilities and payoffs
PScale == 10000     \* fixed-point resolution of a probability
ZScale == 1000      \* fixed-point resolution of a standard normal argument

(***************************************************************************)
(* Program constants of investment.ts.                                     *)
(***************************************************************************)
minI == 1           \* bestResponse: const minI = 1
maxI == 100         \* bestResponse: const maxI = 100
maxIter == 50       \* solveGTO: const maxIter = 50
GoldenSteps == 20   \* bestResponse: for (i = 0; i < 20; i++)
BisectionSteps == 50  \* computeSignalingCutoffForState: for (i = 0; i < 50; i++)
PhiNum == 1618      \* phi = (1 + sqrt 5) / 2 = PhiNum / PhiDen
PhiDen == 1000
NEtol == 1          \* verifyNE: 1e-9, in utility units
Infinity == 1000000000  \* bestDeviation = Infinity
NaN == -(2 * Infinity)  \* the double that compares false with everything

\* comparisons of doubles: false when either side is NaN
Lt(a, b) == a # NaN /\ b # NaN /\ a < b
Gt(a, b) == a # NaN /\ b # NaN /\ a > b
Ge(a, b) == a # NaN /\ b # NaN /\ a >= b

tolerance == IScale \div 10   \* solveGTO: const tolerance = 0.1

Abs(x) == IF x < 0 THEN -x ELSE x
Max(a, b) == IF a >= b THEN a ELSE b
Min(a, b) == IF a <= b THEN a ELSE b

VARIABLES
    params,             \* the Parameters object handed to solveGTO
    pc,                 \* position inside solveGTO: "loop" or "done"
    I1, I2,             \* solveGTO: let I1, I2
    iterations,         \* solveGTO: let iterations
    convergedIteration, \* solveGTO: let convergedIteration
    bestI1, bestI2,     \* solveGTO: best candidate so far
    bestDeviation,      \* solveGTO: its max deviation from a best response
    result              \* the InvestmentResult returned, or NoResult

gtoVars == <<params, pc, I1, I2, iterations, convergedIteration,
             bestI1, bestI2, bestDeviation, result>>

VARIABLES
    parameters,         \* GameState.parameters, the ModelParameters of a round
    equilibrium,        \* the EquilibriumPrediction handed to the date functions
    actors,             \* the pair of ActorState
    roundPc,            \* position inside simulateRound
    roundOutcome        \* what determineOutcome returned, or NoOutcome

roundVars == <<parameters, equilibrium, actors, roundPc, roundOutcome>>

\* computeSignalingCutoffForState: its arguments, locals and return value
VARIABLES
    solverParams, solverPlayer, solverPc, bisectLo, bisectHi, bisectI, solverReturn

solverVars == <<solverParams, solverPlayer, solverPc, bisectLo, bisectHi, bisectI,
                solverReturn>>

\* one call of a pure function: which function, its argument, what it returned
VARIABLES
    fnName, fnArgs, fnResult

fnVars == <<fnName, fnArgs, fnResult>>

\* the game store (zustand): the GameState fields and the solver fields
VARIABLES
    storeParameters,        \* parameters
    equilibriumPrediction,
    storeActors,            \* actors
    round,
    date,
    history,
    isPlaying,
    currentPhase,
    pendingOutcome,
    gtoResult,
    gtoSolving,
    gtoTimers               \* callbacks of runGTOSolver set with setTimeout and not yet run

storeVars == <<storeParameters, equilibriumPrediction, storeActors, round, date,
               history, isPlaying, currentPhase, pendingOutcome, gtoResult,
               gtoSolving, gtoTimers>>

vars == <<gtoVars, roundVars, solverVars, fnVars, storeVars>>

\* what an operation of one component leaves alone: the other components
exceptGTO == <<roundVars, solverVars, fnVars, storeVars>>
exceptRound == <<gtoVars, solverVars, fnVars, storeVars>>
exceptSolver == <<gtoVars, roundVars, fnVars, storeVars>>
exceptFn == <<gtoVars, roundVars, solverVars, storeVars>>
exceptStore == <<gtoVars, roundVars, solverVars, fnVars>>

\* no pure function is being called
FnIdle ==
    /\ fnName = "idle"
    /\ fnArgs = <<>>
    /\ fnResult = <<>>

\* the store is not created
StoreIdle ==
    /\ storeParameters = <<>>
    /\ equilibriumPrediction = <<>>
    /\ storeActors = <<>>
    /\ round = 0
    /\ date = 0
    /\ history = <<>>
    /\ isPlaying = FALSE
    /\ currentPhase = "idle"
    /\ pendingOutcome = <<>>
    /\ gtoResult = <<>>
    /\ gtoSolving = FALSE
    /\ gtoTimers = 0

\* computeSignalingCutoffForState is not running
SolverIdle ==
    /\ solverParams = <<>>
    /\ solverPlayer = 0
    /\ solverPc = "idle"
    /\ bisectLo = 0
    /\ bisectHi = 0
    /\ bisectI = 0
    /\ solverReturn = 0

NoResult == [converged |-> FALSE, I1 |-> 0, I2 |-> 0, iterations |-> 0,
             rawI1 |-> 0, rawI2 |-> 0, tried |-> <<>>]

(***************************************************************************)
(* The utility surface.  computeExpectedUtility (lines 82-122) weights     *)
(* equilibrium probabilities that are integrals of normal densities; TLC   *)
(* cannot evaluate them, so the surface is an input of the model.  What    *)
(* the code fixes is kept: the value is a pure function of                 *)
(* (Ii, Ij, baseParams, isState1) and it is floored at zero (line 121).    *)
(* A surface of the family is a tent over the player's own investment:     *)
(* its peak lies at k + off, it falls by `drop' (in 1e-9) per investment   *)
(* unit, and when `flip' is set the peak is mirrored once the opponent     *)
(* invests more than Thr.  Utilities are counted in 1e-9 / IScale.         *)
(***************************************************************************)
Thr == ((PeakMax + 2) * IScale) \div 2
OffLo == (45 * IScale) \div 100
OffHi == (55 * IScale) \div 100

Shape ==
    [k : 1..PeakMax, off : {OffLo, OffHi}, flip : BOOLEAN, drop : {DropMax}]
        \cup [k : {1}, off : {OffLo}, flip : BOOLEAN, drop : {0, 1}]
        \cup [k : {0}, off : {OffLo}, flip : {FALSE}, drop : {DropMax}]

computeExpectedUtility(Ii, Ij, baseParams, isState1) ==
    LET sh == IF isState1 THEN baseParams.shape1 ELSE baseParams.shape2
        k  == IF sh.flip /\ Ij > Thr THEN PeakMax + 1 - sh.k ELSE sh.k
        u  == Height * IScale - sh.drop * Abs(Ii - (k * IScale + sh.off))
    IN  Max(0, u)

(***************************************************************************)
(* bestResponse: grid search over minI..maxI (strict improvement, so the   *)
(* smallest maximiser wins), then GoldenSteps golden-section steps.        *)
(***************************************************************************)
\* The scan `for (I = minI; I <= maxI; I++) if (eu > bestEU) ...' over the
\* tabulated utilities: the first maximiser wins.  It is evaluated by halves,
\* which gives the same index as the left-to-right scan.
\* a scan that lets a later grid point replace an equally good earlier one
RECURSIVE GridSearch_LastWins(_, _, _)
GridSearch_LastWins(from, to, tab) ==
    IF from = to THEN from
    ELSE LET mid   == (from + to) \div 2
             left  == GridSearch_LastWins(from, mid, tab)
             right == GridSearch_LastWins(mid + 1, to, tab)
         IN  IF tab[right] >= tab[left] THEN right ELSE left

RECURSIVE GridSearch(_, _, _)
GridSearch(from, to, tab) ==
    IF from = to THEN from
    ELSE LET mid   == (from + to) \div 2
             left  == GridSearch(from, mid, tab)
             right == GridSearch(mid + 1, to, tab)
         IN  IF tab[right] > tab[left] THEN right ELSE left

RECURSIVE GoldenSection(_, _, _, _, _, _)
GoldenSection(i, lo, hi, Ij, baseParams, isState1) ==
    IF i >= GoldenSteps THEN (lo + hi) \div 2
    ELSE LET x1  == hi - ((hi - lo) * PhiDen) \div PhiNum
             x2  == lo + ((hi - lo) * PhiDen) \div PhiNum
             eu1 == computeExpectedUtility(x1, Ij, baseParams, isState1)
             eu2 == computeExpectedUtility(x2, Ij, baseParams, isState1)
         IN  IF eu1 > eu2
             THEN GoldenSection(i + 1, lo, x2, Ij, baseParams, isState1)
             ELSE GoldenSection(i + 1, x1, hi, Ij, baseParams, isState1)

bestResponse(Ij, baseParams, isState1) ==
    LET tab   == [I \in minI..maxI |->
                     computeExpectedUtility(I * IScale, Ij, baseParams, isState1)]
        bestI == GridSearch(minI, maxI, tab)
        lo    == Max(minI, bestI - 1) * IScale
        hi    == Min(maxI, bestI + 1) * IScale
    IN  GoldenSection(0, lo, hi, Ij, baseParams, isState1)

(***************************************************************************)
(* verifyNE: no deviation of +-1 inside [1,100] gains more than 1e-9.      *)
(***************************************************************************)
NoGain(I, Iother, baseParams, isState1) ==
    LET eu == computeExpectedUtility(I, Iother, baseParams, isState1)
    IN  \A delta \in {-1, 1} :
            LET dev == I + delta * IScale
            IN  (dev >= 1 * IScale /\ dev <= 100 * IScale)
                    => ~(computeExpectedUtility(dev, Iother, baseParams, isState1)
                             > eu + NEtol * IScale)

\* a verifyNE that forgets the second player
verifyNE_State1Only(i1, i2, baseParams) ==
    NoGain(i1, i2, baseParams, TRUE)

verifyNE(i1, i2, baseParams) ==
    NoGain(i1, i2, baseParams, TRUE) /\ NoGain(i2, i1, baseParams, FALSE)

(***************************************************************************)
(* Math.round / floor / ceil of a clamped investment level.                *)
(***************************************************************************)
Clamp(x) == Max(1 * IScale, Min(100 * IScale, x))
\* a Math.round that is left out
Round_Omitted(x) == x

Round(x) == ((2 * x + IScale) \div (2 * IScale)) * IScale
Floor(x) == (x \div IScale) * IScale
Ceil(x) == ((x + IScale - 1) \div IScale) * IScale

\* the candidate list with ceil/ceil tried before floor/floor
Candidates_CeilFirst(x1, x2) ==
    << <<Ceil(Clamp(x1)), Ceil(Clamp(x2))>>,
       <<Floor(Clamp(x1)), Floor(Clamp(x2))>>,
       <<Floor(Clamp(x1)), Ceil(Clamp(x2))>>,
       <<Ceil(Clamp(x1)), Floor(Clamp(x2))>> >>

Candidates(x1, x2) ==
    << <<Floor(Clamp(x1)), Floor(Clamp(x2))>>,
       <<Ceil(Clamp(x1)), Ceil(Clamp(x2))>>,
       <<Floor(Clamp(x1)), Ceil(Clamp(x2))>>,
       <<Ceil(Clamp(x1)), Floor(Clamp(x2))>> >>

InRange(c) == c >= 1 * IScale /\ c <= 100 * IScale

\* index of the first candidate that passes, or 0
RECURSIVE FirstPassing(_, _, _)
FirstPassing(k, cands, baseParams) ==
    IF k > Len(cands) THEN 0
    ELSE IF InRange(cands[k][1]) /\ InRange(cands[k][2])
            /\ verifyNE(cands[k][1], cands[k][2], baseParams)
         THEN k
         ELSE FirstPassing(k + 1, cands, baseParams)

(***************************************************************************)
(* solveGTO, lines 213-298.                                                *)
(***************************************************************************)
StartPairs ==
    { <<(4 * IScale) \div 10, (4 * IScale) \div 10>>,   \* below the domain
      <<10 * IScale, 10 * IScale>>,                     \* DEFAULT_PARAMETERS
      <<(4 * IScale) \div 10, 150 * IScale>>,          \* outside on both sides
      <<4 * IScale, 5 * IScale>> }                      \* unequal slider values

GameSet ==
    { [I1 |-> s[1], I2 |-> s[2], shape1 |-> s1, shape2 |-> s2] :
          s \in StartPairs, s1 \in Shape, s2 \in Shape }

\* no round is being simulated
RoundIdle ==
    /\ parameters = <<>>
    /\ equilibrium = <<>>
    /\ actors = <<>>
    /\ roundPc = "idle"
    /\ roundOutcome = <<>>

GTOInit ==
    /\ RoundIdle
    /\ SolverIdle
    /\ FnIdle
    /\ StoreIdle
    /\ params \in GameSet
    /\ pc = "loop"
    /\ I1 = params.I1
    /\ I2 = params.I2
    /\ iterations = 0
    /\ convergedIteration = FALSE
    /\ bestI1 = params.I1
    /\ bestI2 = params.I2
    /\ bestDeviation = Infinity
    /\ result = NoResult

\* a candidate that replaces the best one whenever it is at least as good
improves_OnTies(maxDev, best) == maxDev <= best

\* line 238
improves(maxDev, best) == maxDev < best

\* updates that count as settled only when they are zero
settled_Exactly(newI1, oldI1, newI2, oldI2) ==
    newI1 = oldI1 /\ newI2 = oldI2

\* line 248
settled(newI1, oldI1, newI2, oldI2) ==
    Abs(newI1 - oldI1) <= tolerance /\ Abs(newI2 - oldI2) <= tolerance

\* one pass through the body of the for loop, lines 228-257
GTOIterate ==
    /\ pc = "loop"
    /\ iterations < maxIter
    /\ ~convergedIteration
    /\ LET br1    == bestResponse(I2, params, TRUE)
           br2    == bestResponse(I1, params, FALSE)
           dev1   == Abs(br1 - I1)
           dev2   == Abs(br2 - I2)
           maxDev == Max(dev1, dev2)
           newI1  == (br1 + I1) \div 2
           newI2  == (br2 + I2) \div 2
       IN  /\ iterations' = iterations + 1
           /\ IF improves(maxDev, bestDeviation)
              THEN /\ bestDeviation' = maxDev
                   /\ bestI1' = I1
                   /\ bestI2' = I2
              ELSE UNCHANGED <<bestDeviation, bestI1, bestI2>>
           /\ convergedIteration' = settled(newI1, I1, newI2, I2)
           /\ I1' = newI1
           /\ I2' = newI2
    /\ UNCHANGED <<params, pc, result>>
    /\ UNCHANGED exceptGTO

\* lines 259-297: choose the point, round, verify, try the candidates
GTOFinish ==
    /\ pc = "loop"
    /\ (convergedIteration \/ iterations >= maxIter)
    /\ LET x1        == IF convergedIteration THEN I1 ELSE bestI1
           x2        == IF convergedIteration THEN I2 ELSE bestI2
           roundedI1 == Round(Clamp(x1))
           roundedI2 == Round(Clamp(x2))
           nearest   == verifyNE(roundedI1, roundedI2, params)
           cands     == Candidates(x1, x2)
           k         == IF nearest THEN 0 ELSE FirstPassing(1, cands, params)
       IN  result' = [converged  |-> nearest \/ k > 0,
                      I1         |-> IF k > 0 THEN cands[k][1] ELSE roundedI1,
                      I2         |-> IF k > 0 THEN cands[k][2] ELSE roundedI2,
                      iterations |-> iterations,
                      rawI1      |-> x1,
                      rawI2      |-> x2,
                      tried      |-> IF nearest THEN <<>> ELSE cands]
    /\ pc' = "done"
    /\ UNCHANGED <<params, I1, I2, iterations, convergedIteration,
                   bestI1, bestI2, bestDeviation>>
    /\ UNCHANGED exceptGTO

GTONext == GTOIterate \/ GTOFinish

SpecGTO == GTOInit /\ [][GTONext]_vars

(***************************************************************************)
(* Properties of solveGTO.                                                 *)
(***************************************************************************)
\* the gain of moving `own' by delta investment units against `other'
Gain(own, other, delta, isState1) ==
    computeExpectedUtility(own + delta * IScale, other, params, isState1)
        - computeExpectedUtility(own, other, params, isState1)

\* C1: whenever solveGTO returns converged = true, the returned pair is locally
\* optimal: for each player and each deviation of +1 or -1 that stays inside
\* [1,100], the utility at the deviation exceeds the utility at the returned
\* pair by at most 1e-9, whether or not the iteration stopped early.
C1_ConvergedIsLocallyOptimal ==
    (pc = "done" /\ result.converged) =>
        \A delta \in {-1, 1} :
            /\ (result.I1 + delta * IScale >= minI * IScale
                    /\ result.I1 + delta * IScale <= maxI * IScale)
                  => Gain(result.I1, result.I2, delta, TRUE) <= NEtol * IScale
            /\ (result.I2 + delta * IScale >= minI * IScale
                    /\ result.I2 + delta * IScale <= maxI * IScale)
                  => Gain(result.I2, result.I1, delta, FALSE) <= NEtol * IScale

\* C1 witness: all maxIter iterations ran without an early stop, the nearest
\* rounding failed and an adjacent rounding was returned as converged
C1_Witness ==
    /\ pc = "done"
    /\ result.converged
    /\ ~convergedIteration
    /\ result.iterations = maxIter
    /\ result.tried # <<>>

\* C2: for every starting I1 and I2 (non-integers and values outside [1,100]
\* included) solveGTO returns I1 and I2 that are integers in [1,100], whether
\* converged is true or false.
C2_ResultInDomain ==
    pc = "done" =>
        /\ result.I1 % IScale = 0
        /\ result.I2 % IScale = 0
        /\ result.I1 >= minI * IScale /\ result.I1 <= maxI * IScale
        /\ result.I2 >= minI * IScale /\ result.I2 <= maxI * IScale

\* C2 witness: a non-integer start outside [1,100] on both sides, returned
\* without convergence
C2_Witness ==
    /\ pc = "done"
    /\ ~result.converged
    /\ params.I1 < minI * IScale /\ params.I1 % IScale # 0
    /\ params.I2 > maxI * IScale

\* C2 witness of the clamp: the point the iteration ended on lies below 1
C2_WitnessClamped ==
    /\ pc = "done"
    /\ result.rawI1 < minI * IScale
    /\ result.I1 = minI * IScale

\* the pair solveGTO returned is <<a, b>> with the given converged flag
Returned(a, b, flag) ==
    result.I1 = a /\ result.I2 = b /\ result.converged = flag

\* C3: when the nearest-integer rounding of the final point fails the
\* verification, the roundings floor/floor, ceil/ceil, floor/ceil, ceil/floor
\* of the clamped point are tried in that order and the first that passes is
\* returned with converged = true; if none passes, the nearest-integer
\* rounding is returned with converged = false.
C3_CandidateOrder ==
    LET c1 == Clamp(result.rawI1)
        c2 == Clamp(result.rawI2)
        passes(a, b) == InRange(a) /\ InRange(b) /\ verifyNE(a, b, params)
    IN  (pc = "done" /\ ~verifyNE(Round(c1), Round(c2), params)) =>
            IF passes(Floor(c1), Floor(c2))
            THEN Returned(Floor(c1), Floor(c2), TRUE)
            ELSE IF passes(Ceil(c1), Ceil(c2))
            THEN Returned(Ceil(c1), Ceil(c2), TRUE)
            ELSE IF passes(Floor(c1), Ceil(c2))
            THEN Returned(Floor(c1), Ceil(c2), TRUE)
            ELSE IF passes(Ceil(c1), Floor(c2))
            THEN Returned(Ceil(c1), Floor(c2), TRUE)
            ELSE Returned(Round(c1), Round(c2), FALSE)

\* C3 witness: the nearest rounding failed, floor/floor failed, and both
\* ceil/ceil and floor/ceil pass: the earlier of the two was returned
C3_Witness ==
    /\ pc = "done"
    /\ result.tried # <<>>
    /\ ~verifyNE(result.tried[1][1], result.tried[1][2], params)
    /\ verifyNE(result.tried[2][1], result.tried[2][2], params)
    /\ verifyNE(result.tried[3][1], result.tried[3][2], params)
    /\ result.tried[2] # result.tried[3]
    /\ Returned(result.tried[2][1], result.tried[2][2], TRUE)

\* C3 witness of the fallback: no rounding passes
C3_WitnessNone ==
    /\ pc = "done"
    /\ result.tried # <<>>
    /\ ~result.converged

(***************************************************************************)
(* determineOutcome, engine.ts lines 171-231.                              *)
(***************************************************************************)
\* no solver run is in progress
GTOIdle ==
    /\ params = <<>>
    /\ pc = "idle"
    /\ I1 = 0
    /\ I2 = 0
    /\ iterations = 0
    /\ convergedIteration = FALSE
    /\ bestI1 = 0
    /\ bestI2 = 0
    /\ bestDeviation = Infinity
    /\ result = NoResult

NoOutcome == [outcome |-> "none", payoffs |-> <<0, 0>>]

\* a decisive gap that has to be strictly larger than T
HasDSA_Strict(Ka, Kb, T) == Ka > Kb + T

\* a decisive gap that needs no threshold
HasDSA_NoThreshold(Ka, Kb, T) == Ka >= Kb

\* const state1HasDSA = K1 >= K2 + T
HasDSA(Ka, Kb, T) == Ka >= Kb + T

\* a loser that keeps its wealth
LoserPayoff_KeepsWealth(W, Icost) == W - Icost

\* payoffs = [W1 - I1_cost + V, 0]: the loser's entry
LoserPayoff(W, Icost) == 0

\* a minor-conflict cost that is charged in every round
MinorConflict_Always(y1, y2) == TRUE

\* if (y1 > 0 || y2 > 0)
MinorConflict(y1, y2) == y1 > 0 \/ y2 > 0

\* c_m + (y1 * y2) / (y1 + y2 || 1)
MinorCost(c_m, y1, y2) ==
    c_m + (IF y1 + y2 = 0 THEN (y1 * y2) \div CScale
                          ELSE (y1 * y2) \div (y1 + y2))

\* a final floor that is left out
FloorAtZero_Omitted(x) == x

\* payoffs[i] = Math.max(0, payoffs[i])
FloorAtZero(x) == Max(0, x)

determineOutcome(acts, p) ==
    LET K1 == acts[1].privateCapability
        K2 == acts[2].privateCapability
        Z1 == acts[1].majorAttackChoice
        Z2 == acts[2].majorAttackChoice
        I1_cost == IF p.investmentMode THEN p.I1 ELSE 0
        I2_cost == IF p.investmentMode THEN p.I2 ELSE 0
        war == IF HasDSA(K1, K2, p.T)
               THEN [outcome |-> "dsa_victory_1",
                     payoffs |-> <<p.W1 - I1_cost + p.V, LoserPayoff(p.W2, I2_cost)>>]
               ELSE IF HasDSA(K2, K1, p.T)
               THEN [outcome |-> "dsa_victory_2",
                     payoffs |-> <<LoserPayoff(p.W1, I1_cost), p.W2 - I2_cost + p.V>>]
               ELSE [outcome |-> "catastrophe",
                     payoffs |-> <<Max(0, p.W1 - I1_cost - p.theta),
                                   Max(0, p.W2 - I2_cost - p.theta)>>]
        first == IF ~Z1 /\ ~Z2
                 THEN [outcome |-> "peace",
                       payoffs |-> <<p.W1 - I1_cost + p.V \div 2,
                                     p.W2 - I2_cost + p.V \div 2>>]
                 ELSE war
        y1 == acts[1].minorConflictChoice
        y2 == acts[2].minorConflictChoice
        minorCost == MinorCost(p.c_m, y1, y2)
        pay1 == IF MinorConflict(y1, y2) /\ first.outcome # "dsa_victory_2"
                THEN first.payoffs[1] - minorCost ELSE first.payoffs[1]
        pay2 == IF MinorConflict(y1, y2) /\ first.outcome # "dsa_victory_1"
                THEN first.payoffs[2] - minorCost ELSE first.payoffs[2]
    IN  [outcome |-> first.outcome,
         payoffs |-> <<FloorAtZero(pay1), FloorAtZero(pay2)>>]

\* an ActorState after Date 3
Actor(K, y, Z) ==
    [privateCapability |-> K, minorConflictChoice |-> y, revealedLowerBound |-> y,
     majorAttackChoice |-> Z, attackCutoff |-> 0, signalingCutoff |-> 0]

\* the ModelParameters fields determineOutcome reads
OutcomeParameters ==
    [V : {10 * CScale, 50 * CScale},
     theta : {10 * CScale, 100 * CScale},
     T : {CScale \div 2, 2 * CScale},
     c_m : {CScale, 5 * CScale},
     W1 : {2 * CScale, 50 * CScale},
     W2 : {50 * CScale},
     investmentMode : BOOLEAN,
     I1 : {10 * CScale, 60 * CScale},
     I2 : {10 * CScale}]

Capabilities == {3 * CScale, 5 * CScale, 7 * CScale}

OutcomeInit ==
    /\ GTOIdle
    /\ SolverIdle
    /\ FnIdle
    /\ StoreIdle
    /\ parameters \in OutcomeParameters
    /\ equilibrium = <<>>
    /\ \E K1 \in Capabilities, K2 \in Capabilities :
         \E y1 \in {0, K1}, y2 \in {0, K2}, Z1 \in BOOLEAN, Z2 \in BOOLEAN :
            actors = <<Actor(K1, y1, Z1), Actor(K2, y2, Z2)>>
    /\ roundPc = "date3"
    /\ roundOutcome = NoOutcome

\* simulateRound line 299: const { outcome, payoffs } = determineOutcome(...)
DetermineOutcome ==
    /\ roundPc = "date3"
    /\ roundOutcome' = determineOutcome(actors, parameters)
    /\ roundPc' = "outcome"
    /\ UNCHANGED <<parameters, equilibrium, actors>>
    /\ UNCHANGED exceptRound

SpecOutcome == OutcomeInit /\ [][DetermineOutcome]_vars

(***************************************************************************)
(* math.ts.  normalCDF (lines 12-27) and normalCDFInverse (lines 41-102)   *)
(* are rational approximations evaluated in double precision.  The model   *)
(* tabulates normalCDF at steps of 0.05 and interpolates linearly; an      *)
(* argument is counted in 1/ZScale, a probability in 1/PScale.  The        *)
(* inverse looks the same table up the other way, mirrored around 0.5 as   *)
(* the code's lower and upper regions are.                                 *)
(***************************************************************************)
\* normalCDF(0.05 * i) for i = 0 .. 80, in units of 1e-5
PhiTable ==
    << 50000, 51994, 53983, 55962, 57926, 59871, 61791, 63683, 65542, 67364,
       69146, 70884, 72575, 74215, 75804, 77337, 78814, 80234, 81594, 82894,
       84134, 85314, 86433, 87493, 88493, 89435, 90320, 91149, 91924, 92647,
       93319, 93943, 94520, 95053, 95543, 95994, 96407, 96784, 97128, 97441,
       97725, 97982, 98214, 98422, 98610, 98778, 98928, 99061, 99180, 99286,
       99379, 99461, 99534, 99598, 99653, 99702, 99744, 99781, 99813, 99841,
       99865, 99886, 99903, 99918, 99931, 99942, 99952, 99960, 99966, 99972,
       99977, 99981, 99984, 99987, 99989, 99991, 99993, 99994, 99995, 99996,
       99997 >>

\* the argument from which normalCDF returns exactly 1 in double precision
ZSat == (8246 * ZScale) \div 1000

\* normalCDF(z) for z >= 0, in units of 1e-5
PhiTab(z) ==
    LET pos == z * 20
        idx == pos \div ZScale
        fr  == pos % ZScale
    IN  IF idx >= 80 THEN PhiTable[81]
        ELSE PhiTable[idx + 1]
                 + ((PhiTable[idx + 2] - PhiTable[idx + 1]) * fr) \div ZScale

normalCDF(x) ==
    IF x >= ZSat THEN PScale
    ELSE IF x <= -ZSat THEN 0
    ELSE IF x < 0 THEN PScale - (PhiTab(-x) * PScale) \div 100000
    ELSE (PhiTab(x) * PScale) \div 100000

\* the argument z >= 0 at which the table reaches pt (1e-5 units, pt >= 50000)
InvTab(pt) ==
    IF pt >= PhiTable[81] THEN 4 * ZScale
    ELSE LET idx == CHOOSE i \in 1..80 : PhiTable[i] <= pt /\ pt < PhiTable[i + 1]
         IN  ((idx - 1) * ZScale
                 + ((pt - PhiTable[idx]) * ZScale)
                       \div (PhiTable[idx + 1] - PhiTable[idx])) \div 20

normalCDFInverse(p) ==
    IF p <= 0 THEN -Infinity
    ELSE IF p >= PScale THEN Infinity
    ELSE LET pt == (p * 100000) \div PScale
         IN  IF pt >= 50000 THEN InvTab(pt) ELSE -InvTab(100000 - pt)

(***************************************************************************)
(* The upper tail on a logarithmic scale.  A double keeps 1 - Phi(z) down  *)
(* to 1e-16, which 1/PScale cannot, and computeAttackCutoff needs that     *)
(* tail: a signal far above the opponent's mean moves the cutoff to about  *)
(* y + T.  LogTail(z) is -ln(1 - normalCDF(z)) in units of 1e-5,           *)
(* tabulated from z = -4 to z = 8.2 at steps of 0.05.                      *)
(***************************************************************************)
LogTailTable ==
    << 3, 4, 5, 6, 7, 9, 11, 13, 16, 19,
       23, 28, 34, 40, 48, 58, 69, 82, 97, 114,
       135, 159, 187, 219, 256, 298, 347, 403, 467, 540,
       623, 717, 823, 943, 1078, 1230, 1400, 1590, 1803, 2039,
       2301, 2592, 2914, 3269, 3659, 4088, 4559, 5074, 5636, 6248,
       6914, 7637, 8420, 9267, 10181, 11166, 12225, 13361, 14580, 15883,
       17275, 18760, 20341, 22023, 23807, 25699, 27702, 29820, 32055, 34412,
       36895, 39505, 42248, 45125, 48141, 51298, 54600, 58050, 61650, 65404,
       69315, 73384, 77615, 82011, 86574, 91306, 96210, 101289, 106543, 111977,
       117591, 123388, 129370, 135539, 141897, 148445, 155185, 162119, 169249, 176576,
       184102, 191828, 199756, 207887, 216222, 224763, 233510, 242466, 251631, 261007,
       270594, 280394, 290408, 300636, 311080, 321740, 332618, 343713, 355028, 366563,
       378319, 390296, 402495, 414917, 427562, 440432, 453526, 466846, 480392, 494165,
       508165, 522392, 536848, 551532, 566446, 581589, 596963, 612567, 628402, 644469,
       660767, 677298, 694062, 711058, 728288, 745752, 763450, 781382, 799548, 817950,
       836587, 855460, 874569, 893914, 913495, 933313, 953369, 973661, 994191, 1014958,
       1035963, 1057207, 1078689, 1100409, 1122369, 1144567, 1167004, 1189681, 1212598, 1235754,
       1259150, 1282786, 1306662, 1330779, 1355137, 1379735, 1404574, 1429654, 1454975, 1480538,
       1506342, 1532387, 1558675, 1585204, 1611975, 1638989, 1666244, 1693742, 1721483, 1749466,
       1777691, 1806160, 1834871, 1863826, 1893023, 1922464, 1952148, 1982075, 2012246, 2042661,
       2073319, 2104221, 2135367, 2166757, 2198391, 2230269, 2262391, 2294758, 2327368, 2360224,
       2393323, 2426668, 2460257, 2494090, 2528168, 2562492, 2597059, 2631875, 2666933, 2702236,
       2737787, 2773570, 2809615, 2845888, 2882438, 2919194, 2956208, 2993441, 3031031, 3068707,
       3106692, 3144853, 3183896, 3221501, 3260967, 3299913, 3340460, 3379236, 3425189, 3465736,
       3494504, 3535051, 3604365, 3604365, 3673680 >>

LogTail(z) ==
    IF z <= -4 * ZScale THEN LogTailTable[1]
    ELSE LET pos == (z + 4 * ZScale) * 20
             idx == pos \div ZScale
             fr  == pos % ZScale
         IN  IF idx >= 244 THEN LogTailTable[245]
             ELSE LogTailTable[idx + 1]
                      + ((LogTailTable[idx + 2] - LogTailTable[idx + 1]) * fr)
                            \div ZScale

\* the z at which the tail table reaches v, for v below its last entry
LogTailInverse(v) ==
    IF v <= LogTailTable[1] THEN -4 * ZScale
    ELSE LET idx == CHOOSE i \in 1..244 :
                        LogTailTable[i] <= v /\ v < LogTailTable[i + 1]
         IN  ((idx - 1) * ZScale
                 + ((v - LogTailTable[idx]) * ZScale)
                       \div (LogTailTable[idx + 1] - LogTailTable[idx])) \div 20
             - 4 * ZScale

(***************************************************************************)
(* Equilibrium cutoffs (equilibrium.ts).                                   *)
(***************************************************************************)
\* computeTau: (V / 2 + theta) / (V + theta), a probability in 1/PScale
\* a catastrophe cost counted at half its weight
computeTau_ThetaHalved(V, theta) ==
    IF V + theta = 0 THEN NaN
    ELSE ((V + theta) * PScale) \div (2 * (V + theta))

\* 0 / 0 is NaN
computeTau(V, theta) ==
    IF V + theta = 0 THEN NaN
    ELSE ((V + 2 * theta) * PScale) \div (2 * (V + theta))

\* computeAttackCutoff: k*_i(y_j) = w_j + T + sigma * normalCDFInverse(arg)
\* with Bj = normalCDF((yj - w_j) / sigma) and arg = Bj + (1 - Bj) * tau.
\* Since 1 - arg = (1 - Bj) * (1 - tau), the inverse is taken on the
\* logarithm of the upper tails.  arg <= 0 needs tau <= 0 and Bj = 0;
\* arg >= 1 is reached when tau = 1, when Bj = 1 or when the product of the
\* tails falls below what a double can tell from 0.
\* A NaN tau makes arg NaN, which passes both guards and comes back as NaN.
\* the two guards with their results exchanged
computeAttackCutoff_Swapped(p, yj, tau, opponentW, sigma) ==
    LET z    == ((yj - opponentW) * ZScale) \div sigma
        tail == LogTail(z) + LogTail(normalCDFInverse(tau))
    IN  IF tau = NaN THEN NaN
        ELSE IF tau <= 0 /\ normalCDF(z) <= 0 THEN Infinity
        ELSE IF tau >= PScale \/ z >= ZSat \/ tail >= LogTailTable[245]
        THEN -Infinity
        ELSE opponentW + p.T + (sigma * LogTailInverse(tail)) \div ZScale

computeAttackCutoff(p, yj, tau, opponentW, sigma) ==
    LET z    == ((yj - opponentW) * ZScale) \div sigma
        tail == LogTail(z) + LogTail(normalCDFInverse(tau))
    IN  IF tau = NaN THEN NaN
        ELSE IF tau <= 0 /\ normalCDF(z) <= 0 THEN -Infinity
        ELSE IF tau >= PScale \/ z >= ZSat \/ tail >= LogTailTable[245]
        THEN Infinity
        ELSE opponentW + p.T + (sigma * LogTailInverse(tail)) \div ZScale

(***************************************************************************)
(* resolveParams and the investment maps (investment.ts lines 31-58).      *)
(* w(I) = A * I^alpha doubles with every factor 10 of I and is 5 at        *)
(* I = 10; sigma(I) = B * I^0.4 is 1 at I = 10.  Both are evaluated at     *)
(* the decades 1, 10, 100 only.                                            *)
(***************************************************************************)
investmentToW(I) ==
    CASE I = 1 * CScale   -> (250 * CScale) \div 100
      [] I = 10 * CScale  -> 5 * CScale
      [] I = 100 * CScale -> 10 * CScale

investmentToSigma(I) ==
    CASE I = 1 * CScale   -> (398 * CScale) \div 1000
      [] I = 10 * CScale  -> 1 * CScale
      [] I = 100 * CScale -> (2512 * CScale) \div 1000

resolveParams_Always(p) ==
    [p EXCEPT !.w1 = investmentToW(p.I1),
              !.w2 = investmentToW(p.I2),
              !.sigma1 = investmentToSigma(p.I1),
              !.sigma2 = investmentToSigma(p.I2),
              !.wLinked = FALSE,
              !.sigmaLinked = FALSE]

resolveParams(p) ==
    IF ~p.investmentMode THEN p
    ELSE [p EXCEPT !.w1 = investmentToW(p.I1),
                   !.w2 = investmentToW(p.I2),
                   !.sigma1 = investmentToSigma(p.I1),
                   !.sigma2 = investmentToSigma(p.I2),
                   !.wLinked = FALSE,
                   !.sigmaLinked = FALSE]

(***************************************************************************)
(* simulateRound, engine.ts lines 285-314.                                 *)
(***************************************************************************)
RoundParameters ==
    { [w1 |-> w[1], w2 |-> w[2], sigma1 |-> s[1], sigma2 |-> s[2],
       T |-> T, c_m |-> 1 * CScale, V |-> 50 * CScale, theta |-> th,
       investmentMode |-> m, I1 |-> inv[1], I2 |-> inv[2],
       W1 |-> 50 * CScale, W2 |-> 50 * CScale,
       wLinked |-> w[1] = w[2], sigmaLinked |-> s[1] = s[2]] :
         w \in {<<5 * CScale, 5 * CScale>>, <<10 * CScale, 1 * CScale>>},
         s \in {<<1 * CScale, 1 * CScale>>, <<CScale \div 2, 3 * CScale>>},
         T \in {CScale \div 2, 2 * CScale},
         th \in {10 * CScale, 100 * CScale},
         m \in BOOLEAN,
         inv \in {<<10 * CScale, 10 * CScale>>, <<100 * CScale, 1 * CScale>>} }

\* the EquilibriumPrediction fields the date functions read.  tau and the
\* no-signal attack cutoffs follow computeEquilibrium; a signaling cutoff is
\* the given fraction (in quarters) of the player's no-signal attack cutoff.
\* (a + b) / 2 of two doubles, part_001 lines 306-307
average(a, b) ==
    IF a = NaN \/ b = NaN \/ (Abs(a) = Infinity /\ a = -b) THEN NaN
    ELSE IF Abs(a) = Infinity THEN a
    ELSE IF Abs(b) = Infinity THEN b
    ELSE (a + b) \div 2

Equilibrium(p, quarters) ==
    LET r   == resolveParams(p)
        tau == computeTau(r.V, r.theta)
        k1  == computeAttackCutoff(r, 0, tau, r.w2, r.sigma2)
        k2  == computeAttackCutoff(r, 0, tau, r.w1, r.sigma1)
    IN  [tau |-> tau,
         attackCutoff1NoSignal |-> k1,
         attackCutoff2NoSignal |-> k2,
         signalingCutoff1 |-> (k1 * quarters) \div 4,
         signalingCutoff2 |-> (k2 * quarters) \div 4,
         attackCutoffNoSignal |-> average(k1, k2),
         signalingCutoff |->
             average((k1 * quarters) \div 4, (k2 * quarters) \div 4)]

\* createInitialActor
createInitialActor(budget) ==
    [privateCapability |-> budget, minorConflictChoice |-> 0,
     revealedLowerBound |-> 0, majorAttackChoice |-> FALSE,
     attackCutoff |-> 0, signalingCutoff |-> 0]

RoundInit ==
    /\ GTOIdle
    /\ SolverIdle
    /\ FnIdle
    /\ StoreIdle
    /\ parameters \in RoundParameters
    /\ \E quarters \in {0, 2, 3, 4} : equilibrium = Equilibrium(parameters, quarters)
    /\ actors = <<createInitialActor(resolveParams(parameters).w1),
                  createInitialActor(resolveParams(parameters).w2)>>
    /\ roundPc = "date1"
    /\ roundOutcome = NoOutcome

\* the values w_i + sampleNormal(0, sigma_i) is drawn from: a grid and the
\* player's own two cutoffs
CapabilityGrid ==
    {1 * CScale, 3 * CScale, 5 * CScale, 6 * CScale, 7 * CScale, 8 * CScale,
     10 * CScale, 13 * CScale}

Draws(i) ==
    CapabilityGrid \cup
        (IF i = 1
         THEN {equilibrium.signalingCutoff1, equilibrium.attackCutoff1NoSignal}
         ELSE {equilibrium.signalingCutoff2, equilibrium.attackCutoff2NoSignal})

\* simulateDate1, lines 73-92
SimulateDate1 ==
    /\ roundPc = "date1"
    /\ \E K1 \in Draws(1), K2 \in Draws(2) :
           actors' = <<[actors[1] EXCEPT !.privateCapability = K1],
                       [actors[2] EXCEPT !.privateCapability = K2]>>
    /\ roundPc' = "date2"
    /\ UNCHANGED <<parameters, equilibrium, roundOutcome>>
    /\ UNCHANGED exceptRound

\* an upper end of the signaling region that is included
ShouldSignal_Inclusive(K, signalingCutoff, attackCutoff) ==
    K >= signalingCutoff /\ K <= attackCutoff

\* const shouldSignal = K >= signalingCutoff && K < attackCutoff
ShouldSignal(K, signalingCutoff, attackCutoff) ==
    K >= signalingCutoff /\ K < attackCutoff

simulateDate2(acts, eq) ==
    LET signalingCutoffs == <<eq.signalingCutoff1, eq.signalingCutoff2>>
        attackCutoffs    == <<eq.attackCutoff1NoSignal, eq.attackCutoff2NoSignal>>
        actor(index) ==
            LET K == acts[index].privateCapability
                minorConflictChoice ==
                    IF ShouldSignal(K, signalingCutoffs[index], attackCutoffs[index])
                    THEN K ELSE 0
            IN  [acts[index] EXCEPT !.minorConflictChoice = minorConflictChoice,
                                    !.revealedLowerBound = minorConflictChoice,
                                    !.signalingCutoff = signalingCutoffs[index]]
    IN  <<actor(1), actor(2)>>

\* simulateRound line 293
SimulateDate2 ==
    /\ roundPc = "date2"
    /\ actors' = simulateDate2(actors, equilibrium)
    /\ roundPc' = "date2done"
    /\ UNCHANGED <<parameters, equilibrium, roundOutcome>>
    /\ UNCHANGED exceptRound

\* a cutoff computed from the player's own signal
SignalSeenBy_Own(acts, i) == acts[i].revealedLowerBound

\* the signal player i conditions on: actors[1].revealedLowerBound for
\* kStar1, actors[0].revealedLowerBound for kStar2
SignalSeenBy(acts, i) == acts[3 - i].revealedLowerBound

simulateDate3(p, acts, eq) ==
    LET resolved == resolveParams(p)
        tau    == eq.tau
        kStar1 == computeAttackCutoff(resolved, SignalSeenBy(acts, 1), tau,
                                      resolved.w2, resolved.sigma2)
        kStar2 == computeAttackCutoff(resolved, SignalSeenBy(acts, 2), tau,
                                      resolved.w1, resolved.sigma1)
    IN  <<[acts[1] EXCEPT !.attackCutoff = kStar1,
                          !.majorAttackChoice = Ge(acts[1].privateCapability, kStar1)],
          [acts[2] EXCEPT !.attackCutoff = kStar2,
                          !.majorAttackChoice = Ge(acts[2].privateCapability, kStar2)]>>

\* simulateRound line 296
SimulateDate3 ==
    /\ roundPc = "date2done"
    /\ actors' = simulateDate3(parameters, actors, equilibrium)
    /\ roundPc' = "date3"
    /\ UNCHANGED <<parameters, equilibrium, roundOutcome>>
    /\ UNCHANGED exceptRound

\* engine.ts lines 236-280: the branch taken for one player and the cutoff
\* its sentence quotes
analysis(actor, eq) ==
    IF actor.majorAttackChoice
    THEN [category |-> "attacked", cutoff |-> actor.attackCutoff]
    ELSE IF actor.minorConflictChoice > 0
    THEN [category |-> "signaled", cutoff |-> actor.attackCutoff]
    ELSE IF Ge(actor.privateCapability, eq.attackCutoffNoSignal)
    THEN [category |-> "attacking anyway", cutoff |-> eq.attackCutoffNoSignal]
    ELSE [category |-> "stayed quiet", cutoff |-> eq.signalingCutoff]

generateReasoning(as, eq) ==
    [state1Analysis |-> analysis(as[1], eq),
     state2Analysis |-> analysis(as[2], eq)]

\* engine.ts line 302
GenerateReasoning ==
    /\ roundPc = "outcome"
    /\ fnName = "idle"
    /\ fnName' = "generateReasoning"
    /\ fnArgs' = <<actors, equilibrium>>
    /\ fnResult' = <<generateReasoning(actors, equilibrium)>>
    /\ UNCHANGED <<roundVars, gtoVars, solverVars, storeVars>>

RoundNext ==
    \/ SimulateDate1
    \/ SimulateDate2
    \/ SimulateDate3
    \/ DetermineOutcome
    \/ GenerateReasoning

SpecRound == RoundInit /\ [][RoundNext]_vars

(***************************************************************************)
(* simulateDate3 called with any threshold tau in its equilibrium          *)
(* argument, the values outside (0.5, 1) included.                         *)
(***************************************************************************)
Thresholds == {NaN, 0, PScale \div 2, (8333 * PScale) \div 10000, PScale}

Date3Capabilities == {1 * CScale, 5 * CScale, 13 * CScale}

Date3Init ==
    /\ GTOIdle
    /\ SolverIdle
    /\ FnIdle
    /\ StoreIdle
    /\ parameters \in RoundParameters
    /\ \E tau \in Thresholds :
           equilibrium = [Equilibrium(parameters, 2) EXCEPT !.tau = tau]
    /\ \E K1 \in Date3Capabilities, K2 \in Date3Capabilities :
       \E y1 \in {0, K1}, y2 \in {0, K2} :
           actors = <<Actor(K1, y1, FALSE), Actor(K2, y2, FALSE)>>
    /\ roundPc = "date2done"
    /\ roundOutcome = NoOutcome

Date3Next == SimulateDate3 \/ DetermineOutcome

SpecDate3 == Date3Init /\ [][Date3Next]_vars

(***************************************************************************)
(* computeSignalingCutoffForState (equilibrium.ts), one bisection step     *)
(* per action.  Parameters carry the single noise scale sigma this         *)
(* function reads.                                                         *)
(***************************************************************************)
\* A(y): the opponent's attack probability after signal y; the opponent's
\* cutoff is computed against this state's own base capability
A(p, tau, ownW, opponentW, y) ==
    LET opponentKStar == computeAttackCutoff(p, y, tau, ownW, p.sigma)
    IN  IF opponentKStar >= Infinity THEN 0
        ELSE IF opponentKStar <= -Infinity THEN PScale
        ELSE PScale - normalCDF(((opponentKStar - opponentW) * ZScale) \div p.sigma)

deltaA(p, tau, ownW, opponentW, K) ==
    A(p, tau, ownW, opponentW, 0) - A(p, tau, ownW, opponentW, K)

\* L(K) = c_m + K * opponentW / (K + opponentW + 0.01)
L(p, opponentW, K) ==
    p.c_m + (K * opponentW) \div (K + opponentW + CScale \div 100)

\* benefit(K) = deltaA(K) * V / 2
benefit(p, tau, ownW, opponentW, K) ==
    (deltaA(p, tau, ownW, opponentW, K) * p.V) \div (2 * PScale)

netBenefit(p, tau, ownW, opponentW, K) ==
    benefit(p, tau, ownW, opponentW, K) - L(p, opponentW, K)

\* const testPoint = ownKStarNoSignal * 0.99
testPoint(ownKStarNoSignal) == (ownKStarNoSignal * 99) \div 100

\* a solver that never takes the early return
NoSignalingRegion_Never(p, tau, ownKStarNoSignal, ownW, opponentW) == FALSE

\* if (benefit(testPoint) < L(testPoint)) return ownKStarNoSignal
NoSignalingRegion(p, tau, ownKStarNoSignal, ownW, opponentW) ==
    benefit(p, tau, ownW, opponentW, testPoint(ownKStarNoSignal))
        < L(p, opponentW, testPoint(ownKStarNoSignal))

\* a lower bound started at the base capability itself
LowerBound_Whole(p, tau, ownW, opponentW) ==
    IF benefit(p, tau, ownW, opponentW, ownW) >= L(p, opponentW, ownW)
    THEN 0 ELSE ownW

\* lo = 0 if signaling pays already at ownW * 0.5, else ownW * 0.5
LowerBound(p, tau, ownW, opponentW) ==
    IF benefit(p, tau, ownW, opponentW, ownW \div 2) >= L(p, opponentW, ownW \div 2)
    THEN 0 ELSE ownW \div 2

\* the parameters of the controls: w 1..10, sigma 0.1..3, T 0.5..5,
\* c_m 0.1..20, V 10..1000, theta 10..200
SolverParameters ==
    [w1 : {1 * CScale, 5 * CScale, 10 * CScale},
     w2 : {1 * CScale, 5 * CScale, 10 * CScale},
     sigma : {CScale \div 10, CScale \div 2, 1 * CScale, 3 * CScale},
     T : {CScale \div 2, 2 * CScale, 5 * CScale},
     c_m : {CScale \div 10, 1 * CScale, 20 * CScale},
     V : {10 * CScale, 50 * CScale, 1000 * CScale},
     theta : {10 * CScale, 100 * CScale, 200 * CScale}]

\* the arguments computeEquilibrium passes for player i
SolverTau == computeTau(solverParams.V, solverParams.theta)
OwnW == IF solverPlayer = 1 THEN solverParams.w1 ELSE solverParams.w2
OpponentW == IF solverPlayer = 1 THEN solverParams.w2 ELSE solverParams.w1
OwnKStarNoSignal ==
    computeAttackCutoff(solverParams, 0, SolverTau, OpponentW, solverParams.sigma)

SolverInit ==
    /\ GTOIdle
    /\ RoundIdle
    /\ FnIdle
    /\ StoreIdle
    /\ solverParams \in SolverParameters
    /\ solverPlayer \in {1, 2}
    /\ solverPc = "start"
    /\ bisectLo = 0
    /\ bisectHi = 0
    /\ bisectI = 0
    /\ solverReturn = 0

\* lines 125-141: the early return, or the search bounds
SolverStart ==
    /\ solverPc = "start"
    /\ IF NoSignalingRegion(solverParams, SolverTau, OwnKStarNoSignal, OwnW, OpponentW)
       THEN /\ solverReturn' = OwnKStarNoSignal
            /\ solverPc' = "returned"
            /\ UNCHANGED <<bisectLo, bisectHi>>
       ELSE /\ bisectLo' = LowerBound(solverParams, SolverTau, OwnW, OpponentW)
            /\ bisectHi' = OwnKStarNoSignal
            /\ solverPc' = "bisect"
            /\ UNCHANGED solverReturn
    /\ UNCHANGED <<solverParams, solverPlayer, bisectI>>
    /\ UNCHANGED exceptSolver

\* lines 144-161: one pass of the loop body
SolverStep ==
    /\ solverPc = "bisect"
    /\ bisectI < BisectionSteps
    /\ LET mid == (bisectLo + bisectHi) \div 2
           nb  == netBenefit(solverParams, SolverTau, OwnW, OpponentW, mid)
       IN  IF Abs(nb) < 1
           THEN /\ solverReturn' = mid
                /\ solverPc' = "returned"
                /\ UNCHANGED <<bisectLo, bisectHi, bisectI>>
           ELSE /\ IF nb > 0
                   THEN bisectHi' = mid /\ UNCHANGED bisectLo
                   ELSE bisectLo' = mid /\ UNCHANGED bisectHi
                /\ bisectI' = bisectI + 1
                /\ UNCHANGED <<solverReturn, solverPc>>
    /\ UNCHANGED <<solverParams, solverPlayer>>
    /\ UNCHANGED exceptSolver

\* line 163: return (bisectLo + bisectHi) / 2
SolverFinish ==
    /\ solverPc = "bisect"
    /\ bisectI = BisectionSteps
    /\ solverReturn' = (bisectLo + bisectHi) \div 2
    /\ solverPc' = "returned"
    /\ UNCHANGED <<solverParams, solverPlayer, bisectLo, bisectHi, bisectI>>
    /\ UNCHANGED exceptSolver

SolverNext == SolverStart \/ SolverStep \/ SolverFinish

SpecSolver == SolverInit /\ [][SolverNext]_vars

(***************************************************************************)
(* computeEquilibrium (equilibrium.ts), as one call.                       *)
(***************************************************************************)
RECURSIVE Bisect(_, _, _, _, _, _, _)
\* the loop of computeSignalingCutoffForState from pass i on
Bisect(p, tau, ownW, opponentW, low, high, i) ==
    IF i = BisectionSteps THEN (low + high) \div 2
    ELSE LET mid == (low + high) \div 2
             nb  == netBenefit(p, tau, ownW, opponentW, mid)
         IN  IF Abs(nb) < 1 THEN mid
             ELSE IF nb > 0 THEN Bisect(p, tau, ownW, opponentW, low, mid, i + 1)
             ELSE Bisect(p, tau, ownW, opponentW, mid, high, i + 1)

computeSignalingCutoffForState(p, tau, ownKStarNoSignal, ownW, opponentW) ==
    IF NoSignalingRegion(p, tau, ownKStarNoSignal, ownW, opponentW)
    THEN ownKStarNoSignal
    ELSE Bisect(p, tau, ownW, opponentW,
                LowerBound(p, tau, ownW, opponentW), ownKStarNoSignal, 0)

\* the probability that a draw around w falls below x
Below(p, x, w) == normalCDF(((x - w) * ZScale) \div p.sigma)

\* sigma * Math.sqrt(2)
combinedSigma(p) == (p.sigma * 14142) \div 10000

\* P(-T < K1 - K2 < T), the right tail left out
probNoDSA_OneSided(p) ==
    normalCDF(((p.T - (p.w1 - p.w2)) * ZScale) \div combinedSigma(p))

\* P(-T < K1 - K2 < T)
probNoDSA(p) ==
    normalCDF(((p.T - (p.w1 - p.w2)) * ZScale) \div combinedSigma(p))
        - normalCDF(((-p.T - (p.w1 - p.w2)) * ZScale) \div combinedSigma(p))

computeCatastropheProbability(p, warProbability) ==
    (warProbability * probNoDSA(p)) \div PScale

computeMinorConflictProbabilityAsymmetric(p, sc1, sc2, attackCutoff1, attackCutoff2) ==
    LET probSignalRegion1 == Below(p, attackCutoff1, p.w1) - Below(p, sc1, p.w1)
        probSignalRegion2 == Below(p, attackCutoff2, p.w2) - Below(p, sc2, p.w2)
    IN  PScale - ((PScale - Max(0, probSignalRegion1))
                      * (PScale - Max(0, probSignalRegion2))) \div PScale

\* peace taken as the chance that player 1 alone holds
peaceProbability_Player1Only(state1NoAttackProb, state2NoAttackProb) ==
    state1NoAttackProb

\* const peaceProbability = state1NoAttackProb * state2NoAttackProb
peaceProbability(state1NoAttackProb, state2NoAttackProb) ==
    (state1NoAttackProb * state2NoAttackProb) \div PScale

computeEquilibrium(p) ==
    LET tau == computeTau(p.V, p.theta)
        attackCutoff1NoSignal == computeAttackCutoff(p, 0, tau, p.w2, p.sigma)
        attackCutoff2NoSignal == computeAttackCutoff(p, 0, tau, p.w1, p.sigma)
        signalingCutoff1 ==
            computeSignalingCutoffForState(p, tau, attackCutoff1NoSignal, p.w1, p.w2)
        signalingCutoff2 ==
            computeSignalingCutoffForState(p, tau, attackCutoff2NoSignal, p.w2, p.w1)
        peace == peaceProbability(Below(p, attackCutoff1NoSignal, p.w1),
                                  Below(p, attackCutoff2NoSignal, p.w2))
        warProbability == PScale - peace
    IN  [tau |-> tau,
         attackProbability |-> warProbability,
         minorConflictProbability |->
             computeMinorConflictProbabilityAsymmetric(
                 p, signalingCutoff1, signalingCutoff2,
                 attackCutoff1NoSignal, attackCutoff2NoSignal),
         peaceProbability |-> peace,
         catastropheProbability |-> computeCatastropheProbability(p, warProbability),
         attackCutoff1NoSignal |-> attackCutoff1NoSignal,
         attackCutoff2NoSignal |-> attackCutoff2NoSignal,
         signalingCutoff1 |-> signalingCutoff1,
         signalingCutoff2 |-> signalingCutoff2,
         attackCutoffNoSignal |-> (attackCutoff1NoSignal + attackCutoff2NoSignal) \div 2,
         signalingCutoff |-> (signalingCutoff1 + signalingCutoff2) \div 2]

\* the decisive-victory probabilities of the prediction: war times the
\* probability that the gap K1 - K2 is at least T (player 1) or at most -T
\* (player 2)
dsaVictoryProbability(p, warProbability, i) ==
    IF i = 1
    THEN (warProbability
            * (PScale - normalCDF(((p.T - (p.w1 - p.w2)) * ZScale)
                                      \div combinedSigma(p)))) \div PScale
    ELSE (warProbability
            * normalCDF(((-p.T - (p.w1 - p.w2)) * ZScale)
                            \div combinedSigma(p))) \div PScale

EquilibriumInit ==
    /\ GTOIdle
    /\ RoundIdle
    /\ SolverIdle
    /\ StoreIdle
    /\ fnName = "computeEquilibrium"
    /\ fnArgs \in SolverParameters
    /\ fnResult = <<>>

CallComputeEquilibrium ==
    /\ fnName = "computeEquilibrium"
    /\ fnResult = <<>>
    /\ fnResult' = <<computeEquilibrium(fnArgs)>>
    /\ UNCHANGED <<fnName, fnArgs>>
    /\ UNCHANGED exceptFn

SpecEquilibrium == EquilibriumInit /\ [][CallComputeEquilibrium]_vars

(***************************************************************************)
(* The game store, part_004 lines 117-311.  computeEquilibrium as the      *)
(* store calls it is a pure function of the parameters; the prediction     *)
(* is kept as its tau and the resolved inputs every other field is         *)
(* computed from, so a prediction computed from other parameters is a      *)
(* different value.  A RoundOutcome is kept as its round number and its    *)
(* majorWarOccurred flag, the draws of simulateRound being an input.       *)
(***************************************************************************)
MaxRounds == 1
MaxTimers == 2

DEFAULT_PARAMETERS ==
    [w1 |-> 5 * CScale, w2 |-> 5 * CScale, wLinked |-> TRUE,
     sigma1 |-> 1 * CScale, sigma2 |-> 1 * CScale, sigmaLinked |-> TRUE,
     T |-> 2 * CScale, c_m |-> 1 * CScale, V |-> 50 * CScale,
     theta |-> 100 * CScale, investmentMode |-> FALSE,
     I1 |-> 10 * CScale, I2 |-> 10 * CScale, investmentLinked |-> TRUE,
     W1 |-> 50 * CScale, W2 |-> 50 * CScale, wealthLinked |-> TRUE]

computeEquilibriumOf(p) ==
    LET r == resolveParams(p)
    IN  [tau |-> computeTau(r.V, r.theta),
         inputs |-> <<r.w1, r.w2, r.sigma1, r.sigma2, r.T, r.c_m, r.V, r.theta>>]

createInitialGameState(scenario) ==
    [round |-> 1, date |-> 1, parameters |-> scenario,
     actors |-> <<createInitialActor(resolveParams(scenario).w1),
                  createInitialActor(resolveParams(scenario).w2)>>,
     history |-> <<>>,
     equilibriumPrediction |-> computeEquilibriumOf(scenario),
     isPlaying |-> FALSE, currentPhase |-> "idle", pendingOutcome |-> <<>>]

resetGame(scenario) == createInitialGameState(scenario)

StoreInit ==
    /\ GTOIdle
    /\ RoundIdle
    /\ SolverIdle
    /\ FnIdle
    /\ storeParameters = createInitialGameState(DEFAULT_PARAMETERS).parameters
    /\ equilibriumPrediction =
           createInitialGameState(DEFAULT_PARAMETERS).equilibriumPrediction
    /\ storeActors = createInitialGameState(DEFAULT_PARAMETERS).actors
    /\ round = 1
    /\ date = 1
    /\ history = <<>>
    /\ isPlaying = FALSE
    /\ currentPhase = "idle"
    /\ pendingOutcome = <<>>
    /\ gtoResult = <<>>
    /\ gtoSolving = FALSE
    /\ gtoTimers = 0

\* the operation of the store that ran last, with the history, the pending
\* outcome and the phase it found
called(operation) ==
    /\ fnName' = operation
    /\ fnArgs' = <<history, pendingOutcome, currentPhase>>
    /\ fnResult' = <<>>
    /\ UNCHANGED <<gtoVars, roundVars, solverVars>>

\* lines 131-148: the paired value follows when the pair is linked
linkedPair(n, param, value) ==
    IF param = "w1" /\ n.wLinked THEN [n EXCEPT !.w2 = value]
    ELSE IF param = "w2" /\ n.wLinked THEN [n EXCEPT !.w1 = value]
    ELSE IF param = "sigma1" /\ n.sigmaLinked THEN [n EXCEPT !.sigma2 = value]
    ELSE IF param = "sigma2" /\ n.sigmaLinked THEN [n EXCEPT !.sigma1 = value]
    ELSE IF param = "I1" /\ n.investmentLinked THEN [n EXCEPT !.I2 = value]
    ELSE IF param = "I2" /\ n.investmentLinked THEN [n EXCEPT !.I1 = value]
    ELSE IF param = "W1" /\ n.wealthLinked THEN [n EXCEPT !.W2 = value]
    ELSE IF param = "W2" /\ n.wealthLinked THEN [n EXCEPT !.W1 = value]
    ELSE n

\* lines 150-159: linking a pair makes the second value equal to the first
syncLinked(n, param, value) ==
    IF param = "wLinked" /\ value = TRUE THEN [n EXCEPT !.w2 = n.w1]
    ELSE IF param = "sigmaLinked" /\ value = TRUE
         THEN [n EXCEPT !.sigma2 = n.sigma1]
    ELSE IF param = "investmentLinked" /\ value = TRUE
         THEN [n EXCEPT !.I2 = n.I1]
    ELSE IF param = "wealthLinked" /\ value = TRUE
         THEN [n EXCEPT !.W2 = n.W1]
    ELSE n

\* lines 161-177: leaving investment mode keeps the derived w and sigma
leaveInvestmentMode(old, n, param, value) ==
    IF param = "investmentMode" /\ value # TRUE /\ old.investmentMode
    THEN [n EXCEPT !.w1 = investmentToW(old.I1),
                   !.w2 = investmentToW(old.I2),
                   !.sigma1 = investmentToSigma(old.I1),
                   !.sigma2 = investmentToSigma(old.I2),
                   !.wLinked = FALSE,
                   !.sigmaLinked = FALSE]
    ELSE n

newParams(old, param, value) ==
    leaveInvestmentMode(old,
        syncLinked(linkedPair([old EXCEPT ![param] = value], param, value),
                   param, value),
        param, value)

Updates ==
    {<<"w1", 10 * CScale>>, <<"I1", 100 * CScale>>,
     <<"investmentLinked", TRUE>>, <<"investmentMode", TRUE>>,
     <<"investmentMode", FALSE>>}

updatedEquilibrium_Kept(old, n) == old

\* line 179
updatedEquilibrium(old, n) == computeEquilibriumOf(n)

UpdateParameter ==
    \E u \in Updates :
        /\ storeParameters' = newParams(storeParameters, u[1], u[2])
        /\ equilibriumPrediction' =
               updatedEquilibrium(equilibriumPrediction,
                                  newParams(storeParameters, u[1], u[2]))
        /\ gtoResult' = <<>>
        /\ UNCHANGED <<storeActors, round, date, history, isPlaying,
                       currentPhase, pendingOutcome, gtoSolving, gtoTimers>>
        /\ called("updateParameter")

\* engine.ts lines 285-314, the fields of the RoundOutcome that are kept
simulateRound(r, war) == [round |-> r, majorWarOccurred |-> war]

appendOutcome_First(h, outcome) == <<outcome>> \o h

\* engine.ts line 325, part_004 line 280
appendOutcome(h, outcome) == Append(h, outcome)

\* engine.ts lines 319-328
advanceRound(state, war) ==
    [state EXCEPT !.round = state.round + 1,
                  !.history = appendOutcome(state.history,
                                            simulateRound(state.round, war)),
                  !.equilibriumPrediction =
                      computeEquilibriumOf(state.parameters)]

StoreState ==
    [round |-> round, date |-> date, parameters |-> storeParameters,
     actors |-> storeActors, history |-> history,
     equilibriumPrediction |-> equilibriumPrediction,
     isPlaying |-> isPlaying, currentPhase |-> currentPhase,
     pendingOutcome |-> pendingOutcome]

RunRound ==
    /\ Len(history) < MaxRounds
    /\ \E war \in BOOLEAN :
        /\ round' = advanceRound(StoreState, war).round
        /\ history' = advanceRound(StoreState, war).history
        /\ equilibriumPrediction' =
               advanceRound(StoreState, war).equilibriumPrediction
        /\ storeActors' = advanceRound(StoreState, war).actors
    /\ UNCHANGED <<storeParameters, date, isPlaying, currentPhase,
                   pendingOutcome, gtoResult, gtoSolving, gtoTimers>>
    /\ called("runRound")

Reset ==
    /\ round' = resetGame(storeParameters).round
    /\ date' = resetGame(storeParameters).date
    /\ storeActors' = resetGame(storeParameters).actors
    /\ history' = resetGame(storeParameters).history
    /\ equilibriumPrediction' = resetGame(storeParameters).equilibriumPrediction
    /\ isPlaying' = FALSE
    /\ UNCHANGED <<storeParameters, currentPhase, pendingOutcome, gtoResult,
                   gtoSolving, gtoTimers>>
    /\ called("reset")

\* the scenarios of the preset chips: the defaults, and an investment-mode
\* scenario with unequal investments
Scenarios ==
    {DEFAULT_PARAMETERS,
     [DEFAULT_PARAMETERS EXCEPT !.investmentMode = TRUE,
                                !.I1 = 100 * CScale, !.I2 = 10 * CScale,
                                !.investmentLinked = FALSE]}

LoadParameters ==
    \E scenario \in Scenarios :
        /\ storeParameters' = scenario
        /\ round' = resetGame(scenario).round
        /\ date' = resetGame(scenario).date
        /\ storeActors' = resetGame(scenario).actors
        /\ history' = resetGame(scenario).history
        /\ equilibriumPrediction' = computeEquilibriumOf(scenario)
        /\ isPlaying' = FALSE
        /\ UNCHANGED <<currentPhase, pendingOutcome, gtoResult, gtoSolving,
                       gtoTimers>>
        /\ called("loadParameters")

TogglePlay ==
    /\ isPlaying' = ~isPlaying
    /\ UNCHANGED <<storeParameters, equilibriumPrediction, storeActors, round,
                   date, history, currentPhase, pendingOutcome, gtoResult,
                   gtoSolving, gtoTimers>>
    /\ called("togglePlay")

SetPlaying ==
    \E playing \in BOOLEAN :
        /\ isPlaying' = playing
        /\ UNCHANGED <<storeParameters, equilibriumPrediction, storeActors,
                       round, date, history, currentPhase, pendingOutcome,
                       gtoResult, gtoSolving, gtoTimers>>
        /\ called("setPlaying")

StartRound ==
    /\ currentPhase = "idle"
    /\ Len(history) < MaxRounds
    /\ \E war \in BOOLEAN :
           pendingOutcome' = <<simulateRound(round, war)>>
    /\ currentPhase' = IF storeParameters.investmentMode THEN "date0"
                       ELSE "date1"
    /\ UNCHANGED <<storeParameters, equilibriumPrediction, storeActors, round,
                   date, history, isPlaying, gtoResult, gtoSolving, gtoTimers>>
    /\ called("startRound")

phaseOrder(p) ==
    IF p.investmentMode
    THEN <<"idle", "date0", "date1", "date2", "date3", "outcome">>
    ELSE <<"idle", "date1", "date2", "date3", "outcome">>

\* Array.prototype.indexOf, counted from 0, -1 when absent
indexOf(s, x) ==
    IF \E i \in 1..Len(s) : s[i] = x
    THEN (CHOOSE i \in 1..Len(s) : s[i] = x) - 1
    ELSE -1

\* lines 274-285: what completeRound sets, nothing when no outcome is pending
completeRound(state) ==
    IF state.pendingOutcome = <<>> THEN state
    ELSE [state EXCEPT !.round = state.round + 1,
                       !.history = appendOutcome(state.history,
                                                 state.pendingOutcome[1]),
                       !.equilibriumPrediction =
                           computeEquilibriumOf(state.parameters),
                       !.currentPhase = "idle",
                       !.pendingOutcome = <<>>]

CompleteRound ==
    /\ round' = completeRound(StoreState).round
    /\ history' = completeRound(StoreState).history
    /\ equilibriumPrediction' = completeRound(StoreState).equilibriumPrediction
    /\ currentPhase' = completeRound(StoreState).currentPhase
    /\ pendingOutcome' = completeRound(StoreState).pendingOutcome
    /\ UNCHANGED <<storeParameters, storeActors, date, isPlaying, gtoResult,
                   gtoSolving, gtoTimers>>
    /\ called("completeRound")

AdvancePhase ==
    LET order == phaseOrder(storeParameters)
        currentIndex == indexOf(order, currentPhase)
    IN  IF currentIndex = -1 \/ currentIndex >= Len(order) - 1
        THEN CompleteRound
        ELSE /\ currentPhase' = order[currentIndex + 2]
             /\ UNCHANGED <<storeParameters, equilibriumPrediction,
                            storeActors, round, date, history, isPlaying,
                            pendingOutcome, gtoResult, gtoSolving, gtoTimers>>
             /\ called("advancePhase")

\* lines 288-290: the spinner is shown and the computation is scheduled
RunGTOSolver ==
    /\ gtoTimers < MaxTimers
    /\ gtoSolving' = TRUE
    /\ gtoTimers' = gtoTimers + 1
    /\ UNCHANGED <<storeParameters, equilibriumPrediction, storeActors, round,
                   date, history, isPlaying, currentPhase, pendingOutcome,
                   gtoResult>>
    /\ called("runGTOSolver")

\* InvestmentControls.tsx lines 150-152: the button that calls runGTOSolver
\* is disabled while gtoSolving is set
SolveFromButton ==
    /\ ~gtoSolving
    /\ RunGTOSolver

\* the investments solveGTO can report for the parameters of the store
SolverResults ==
    {[I1 |-> 100 * CScale, I2 |-> 10 * CScale, converged |-> TRUE]}

solvedEquilibrium_Kept(old, n) == old

\* line 300
solvedEquilibrium(old, n) == computeEquilibriumOf(n)

\* lines 291-307: the scheduled computation, on the state it finds
GTOSolverCallback ==
    /\ gtoTimers > 0
    /\ \E solved \in SolverResults :
        /\ storeParameters' = [storeParameters EXCEPT !.I1 = solved.I1,
                                                      !.I2 = solved.I2]
        /\ equilibriumPrediction' =
               solvedEquilibrium(equilibriumPrediction,
                   [storeParameters EXCEPT !.I1 = solved.I1,
                                           !.I2 = solved.I2])
        /\ gtoResult' = <<solved>>
    /\ gtoSolving' = FALSE
    /\ gtoTimers' = gtoTimers - 1
    /\ UNCHANGED <<storeActors, round, date, history, isPlaying, currentPhase,
                   pendingOutcome>>
    /\ called("runGTOSolver callback")

StoreNext ==
    \/ UpdateParameter
    \/ RunRound
    \/ Reset
    \/ LoadParameters
    \/ TogglePlay
    \/ SetPlaying
    \/ StartRound
    \/ AdvancePhase
    \/ CompleteRound
    \/ SolveFromButton
    \/ GTOSolverCallback

SpecStore == StoreInit /\ [][StoreNext]_vars

\* the parameter and solver actions of the store, with runGTOSolver called
\* whenever fewer than MaxTimers callbacks are scheduled
SpecStoreSolver ==
    StoreInit /\ [][UpdateParameter \/ LoadParameters \/ RunGTOSolver
                       \/ GTOSolverCallback]_vars

(***************************************************************************)
(* Properties of determineOutcome.                                         *)
(***************************************************************************)
Outcomes == {"peace", "dsa_victory_1", "dsa_victory_2", "catastrophe"}

Decided == roundPc = "outcome"

capability(i) == actors[i].privateCapability
signal(i) == actors[i].minorConflictChoice
attacked(i) == actors[i].majorAttackChoice

\* wealth less the investment cost, which is charged in investment mode only
Net(i) ==
    IF i = 1
    THEN parameters.W1 - (IF parameters.investmentMode THEN parameters.I1 ELSE 0)
    ELSE parameters.W2 - (IF parameters.investmentMode THEN parameters.I2 ELSE 0)

\* C4: for every pair of capability draws, signals and attack decisions and
\* every parameter set, determineOutcome returns two payoffs that are >= 0
\* and an outcome that is one of peace, dsa_victory_1, dsa_victory_2,
\* catastrophe.
C4_PayoffsNonNegative ==
    Decided =>
        /\ roundOutcome.payoffs[1] >= 0
        /\ roundOutcome.payoffs[2] >= 0
        /\ roundOutcome.outcome \in Outcomes

\* C4 witness: a peace round in investment mode in which state 1's wealth,
\* investment cost, prize share and minor-conflict cost add up to less than 0
C4_Witness ==
    /\ Decided
    /\ roundOutcome.outcome = "peace"
    /\ signal(1) > 0
    /\ Net(1) + parameters.V \div 2 - parameters.c_m < 0
    /\ roundOutcome.payoffs[1] = 0

\* C5: the outcome is peace iff neither player took the major action; when
\* at least one did it is dsa_victory_1 if K1 >= K2 + T, otherwise
\* dsa_victory_2 if K2 >= K1 + T, otherwise catastrophe, whoever attacked.
C5_OutcomeRule ==
    Decided =>
        /\ (roundOutcome.outcome = "peace") <=> (~attacked(1) /\ ~attacked(2))
        /\ (attacked(1) \/ attacked(2)) =>
              roundOutcome.outcome =
                  IF capability(1) >= capability(2) + parameters.T THEN "dsa_victory_1"
                  ELSE IF capability(2) >= capability(1) + parameters.T THEN "dsa_victory_2"
                  ELSE "catastrophe"

\* C5 witness: only state 1 attacked, state 2 leads by exactly T and wins
C5_Witness ==
    /\ Decided
    /\ attacked(1) /\ ~attacked(2)
    /\ capability(2) = capability(1) + parameters.T
    /\ roundOutcome.outcome = "dsa_victory_2"

\* C6: in a decisive victory the loser's final payoff is exactly 0, also when
\* one or both players signalled.
C6_LoserGetsZero ==
    Decided =>
        /\ roundOutcome.outcome = "dsa_victory_1" => roundOutcome.payoffs[2] = 0
        /\ roundOutcome.outcome = "dsa_victory_2" => roundOutcome.payoffs[1] = 0

\* C6 witness: state 2 loses after both players signalled, with wealth left
\* after its investment cost
C6_Witness ==
    /\ Decided
    /\ roundOutcome.outcome = "dsa_victory_1"
    /\ signal(1) > 0 /\ signal(2) > 0
    /\ Net(2) > 0
    /\ roundOutcome.payoffs[2] = 0

\* the blended minor-conflict cost c_m + y1*y2/(y1+y2), zero denominator guarded
BlendedCost ==
    parameters.c_m + (IF signal(1) + signal(2) = 0 THEN 0
                                         ELSE (signal(1) * signal(2)) \div (signal(1) + signal(2)))

\* a player's payoff before the minor-conflict cost and the final floor
BasePayoff(i) ==
    IF roundOutcome.outcome = "peace" THEN Net(i) + parameters.V \div 2
    ELSE IF roundOutcome.outcome = "catastrophe" THEN Max(0, Net(i) - parameters.theta)
    ELSE IF roundOutcome.outcome = (IF i = 1 THEN "dsa_victory_1" ELSE "dsa_victory_2")
    THEN Net(i) + parameters.V
    ELSE 0

\* the decisive-victory loser, or 0
Loser ==
    IF roundOutcome.outcome = "dsa_victory_1" THEN 2
    ELSE IF roundOutcome.outcome = "dsa_victory_2" THEN 1
    ELSE 0

\* C7 as stated: in every peace and catastrophe round the blended
\* minor-conflict cost is subtracted from both payoffs before the floor.
C7_CostInEveryRound ==
    (Decided /\ roundOutcome.outcome \in {"peace", "catastrophe"}) =>
        \A i \in {1, 2} :
            roundOutcome.payoffs[i] = Max(0, BasePayoff(i) - BlendedCost)

\* C7 amended: when at least one player signalled (y1 > 0 or y2 > 0) the
\* blended minor-conflict cost is subtracted, before the final floor at zero,
\* from the payoff of every player who is not a decisive-victory loser; when
\* neither player signalled nothing is subtracted, not even c_m.
C7_CostWhenSignalled ==
    Decided =>
        \A i \in {1, 2} :
            roundOutcome.payoffs[i] =
                IF (signal(1) > 0 \/ signal(2) > 0) /\ i # Loser
                THEN Max(0, BasePayoff(i) - BlendedCost)
                ELSE Max(0, BasePayoff(i))

\* C7 witness: a peace round without any signal, paid in full
C7_Witness ==
    /\ Decided
    /\ roundOutcome.outcome = "peace"
    /\ signal(1) = 0 /\ signal(2) = 0
    /\ parameters.c_m > 0
    /\ roundOutcome.payoffs[1] = Net(1) + parameters.V \div 2
    /\ roundOutcome.payoffs[1] > 0

(***************************************************************************)
(* Properties of simulateDate2 and simulateDate3.                          *)
(***************************************************************************)
Signalled == roundPc \in {"date2done", "date3", "outcome"}
AttackDecided == roundPc \in {"date3", "outcome"}

signalingCutoffOf(i) ==
    IF i = 1 THEN equilibrium.signalingCutoff1 ELSE equilibrium.signalingCutoff2
attackCutoffNoSignalOf(i) ==
    IF i = 1 THEN equilibrium.attackCutoff1NoSignal
    ELSE equilibrium.attackCutoff2NoSignal
InSignalingRegion(i) ==
    /\ signalingCutoffOf(i) <= capability(i)
    /\ capability(i) < attackCutoffNoSignalOf(i)

\* C8: after date 2 player i's signal is its capability exactly when the
\* capability lies in [signalingCutoff_i, attackCutoff_i(0)), cutoffs being
\* the player's own, and is 0 otherwise; the revealed lower bound is the
\* signal; so a signal is 0 or lies in [signalingCutoff_i, attackCutoff_i(0)).
C8_SignalRule ==
    Signalled =>
        \A i \in {1, 2} :
            /\ (signal(i) = capability(i)) <=> InSignalingRegion(i)
            /\ ~InSignalingRegion(i) => signal(i) = 0
            /\ actors[i].revealedLowerBound = signal(i)
            /\ actors[i].signalingCutoff = signalingCutoffOf(i)
            /\ \/ signal(i) = 0
               \/ /\ signalingCutoffOf(i) <= signal(i)
                  /\ signal(i) < attackCutoffNoSignalOf(i)

\* the two players' cutoffs differ, player 1 signals, and player 2, whose
\* capability is its no-signal attack cutoff exactly, does not
C8_Witness ==
    /\ Signalled
    /\ signalingCutoffOf(1) # signalingCutoffOf(2)
    /\ attackCutoffNoSignalOf(1) # attackCutoffNoSignalOf(2)
    /\ signal(1) > 0
    /\ capability(2) = attackCutoffNoSignalOf(2)
    /\ signalingCutoffOf(2) < capability(2)
    /\ signal(2) = 0

\* the cutoff of player i at date 3, from the opponent's revealed signal and
\* the opponent's (resolved) capability mean and noise
CutoffAgainst(i) ==
    LET r == resolveParams(parameters)
    IN  computeAttackCutoff(r, actors[3 - i].revealedLowerBound, equilibrium.tau,
                            IF i = 1 THEN r.w2 ELSE r.w1,
                            IF i = 1 THEN r.sigma2 ELSE r.sigma1)

\* C9: after date 3 player i attacks exactly when its capability is at least
\* the cutoff computed from the opponent's revealed signal with the
\* opponent's mean and noise; that cutoff is the one stored in the actor;
\* it does not depend on the player's own signal: against a silent opponent
\* it is the no-signal cutoff of the equilibrium whatever the player signalled.
C9_AttackRule ==
    AttackDecided =>
        \A i \in {1, 2} :
            /\ actors[i].attackCutoff = CutoffAgainst(i)
            /\ attacked(i) <=> capability(i) >= actors[i].attackCutoff
            /\ signal(3 - i) = 0 =>
                   actors[i].attackCutoff = attackCutoffNoSignalOf(i)

\* player 2 signalled, and player 1, strong enough to attack a silent
\* opponent, no longer attacks; player 1 is silent, and player 2 faces the
\* no-signal cutoff although it signalled itself
C9_Witness ==
    /\ AttackDecided
    /\ signal(2) > 0
    /\ signal(1) = 0
    /\ capability(1) >= attackCutoffNoSignalOf(1)
    /\ ~attacked(1)
    /\ actors[2].attackCutoff = attackCutoffNoSignalOf(2)
    /\ actors[1].attackCutoff # Infinity

(***************************************************************************)
(* Properties of computeSignalingCutoffForState.                           *)
(***************************************************************************)
LowerBoundIsHalf ==
    /\ ~NoSignalingRegion(solverParams, SolverTau, OwnKStarNoSignal, OwnW, OpponentW)
    /\ LowerBound(solverParams, SolverTau, OwnW, OpponentW) = OwnW \div 2

C10_WitnessMidpoint ==
    /\ solverPc = "returned"
    /\ LowerBoundIsHalf
    /\ bisectI < BisectionSteps
    /\ bisectI > 0

\* half the own base capability lies above the no-signal attack cutoff, and
\* the solver returned before using it as a lower bound
C10_WitnessHalfAboveCutoff ==
    /\ solverPc = "returned"
    /\ OwnW \div 2 > OwnKStarNoSignal
    /\ solverReturn = OwnKStarNoSignal

(***************************************************************************)
(* computeTau called on its own, over V >= 0 and theta >= 0.               *)
(***************************************************************************)
TauArguments ==
    [V : {0, 1 * CScale, 2 * CScale, 5 * CScale, 10 * CScale, 20 * CScale,
          50 * CScale, 100 * CScale, 500 * CScale, 1000 * CScale},
     theta : {0, 1 * CScale, 2 * CScale, 5 * CScale, 10 * CScale, 20 * CScale,
              50 * CScale, 100 * CScale, 200 * CScale}]

TauInit ==
    /\ GTOIdle
    /\ RoundIdle
    /\ SolverIdle
    /\ StoreIdle
    /\ fnName = "computeTau"
    /\ fnArgs \in TauArguments
    /\ fnResult = <<>>

CallComputeTau ==
    /\ fnName = "computeTau"
    /\ fnResult = <<>>
    /\ fnResult' = <<computeTau(fnArgs.V, fnArgs.theta)>>
    /\ UNCHANGED <<fnName, fnArgs>>
    /\ UNCHANGED exceptFn

SpecTau == TauInit /\ [][CallComputeTau]_vars

TauReturned == fnName = "computeTau" /\ fnResult # <<>>

C11_WitnessZeroPrize ==
    /\ TauReturned
    /\ fnArgs.V = 0
    /\ fnArgs.theta > 0
    /\ fnResult[1] = PScale

(***************************************************************************)
(* Properties of computeAttackCutoff at the ends of its argument.          *)
(***************************************************************************)
\* B_j for player i: the mass of the opponent's distribution below its signal
MassBelowSignal(i) ==
    LET r == resolveParams(parameters)
    IN  normalCDF(((actors[3 - i].revealedLowerBound
                        - (IF i = 1 THEN r.w2 ELSE r.w1)) * ZScale)
                      \div (IF i = 1 THEN r.sigma2 ELSE r.sigma1))

\* arg = B + (1 - B) * tau is <= 0: B and tau are never negative
ArgAtMostZero(i) ==
    equilibrium.tau # NaN /\ equilibrium.tau <= 0 /\ MassBelowSignal(i) <= 0

\* arg = B + (1 - B) * tau is >= 1
ArgAtLeastOne(i) ==
    equilibrium.tau # NaN
        /\ (equilibrium.tau >= PScale \/ MassBelowSignal(i) >= PScale)

C12_WitnessNeverAttacks ==
    /\ AttackDecided
    /\ equilibrium.tau = (8333 * PScale) \div 10000
    /\ actors[1].attackCutoff = Infinity
    /\ capability(1) = 13 * CScale
    /\ ~attacked(1)

\* tau is NaN: so is the cutoff, and the player holds
C12_WitnessNaN ==
    /\ AttackDecided
    /\ equilibrium.tau = NaN
    /\ actors[1].attackCutoff = NaN
    /\ ~attacked(1)

(***************************************************************************)
(* Properties of computeEquilibrium.                                       *)
(***************************************************************************)
EquilibriumReturned == fnName = "computeEquilibrium" /\ fnResult # <<>>

prediction == fnResult[1]

OutcomeProbabilitySum ==
    prediction.peaceProbability
        + dsaVictoryProbability(fnArgs, prediction.attackProbability, 1)
        + dsaVictoryProbability(fnArgs, prediction.attackProbability, 2)
        + prediction.catastropheProbability

StoreRunning == round > 0

\* C14: in every state of the store, whatever sequence of updateParameter,
\* loadParameters, runRound, reset, startRound, advancePhase, completeRound
\* and completed runGTOSolver callbacks led to it, equilibriumPrediction is
\* computeEquilibrium of the current parameters.
C14_PredictionIsCurrent ==
    StoreRunning => equilibriumPrediction = computeEquilibriumOf(storeParameters)

\* a completed solver callback has changed the investments that the
\* prediction of an investment-mode store is computed from
C14_Witness ==
    /\ StoreRunning
    /\ gtoResult # <<>>
    /\ storeParameters.investmentMode
    /\ storeParameters.I1 # storeParameters.I2
    /\ Len(history) > 0
    /\ equilibriumPrediction # computeEquilibriumOf(DEFAULT_PARAMETERS)
    /\ equilibriumPrediction = computeEquilibriumOf(storeParameters)

historyBefore == fnArgs[1]

pendingBefore == fnArgs[2]

phaseBefore == fnArgs[3]

appended(before, after) ==
    /\ Len(after) = Len(before) + 1
    /\ SubSeq(after, 1, Len(before)) = before

extends(before, after) ==
    /\ Len(after) >= Len(before)
    /\ SubSeq(after, 1, Len(before)) = before

\* C15: the history is append-only between resets: advanceRound/runRound and
\* completeRound each add exactly one RoundOutcome at the end of history and
\* leave the earlier entries as they were, and no operation other than reset
\* and loadParameters removes entries.
C15_AppendOnly ==
    (StoreRunning /\ fnName # "idle") =>
        /\ fnName \in {"runRound", "completeRound"} =>
               appended(historyBefore, history)
        /\ fnName \notin {"reset", "loadParameters"} =>
               extends(historyBefore, history)

\* C15 as the code has it: completeRound adds the pending outcome when there
\* is one and does nothing otherwise; runRound adds exactly one outcome; reset
\* and loadParameters empty the history; every other operation leaves it.
C15_AppendOnlyWhenPending ==
    (StoreRunning /\ fnName # "idle") =>
        /\ fnName = "runRound" => appended(historyBefore, history)
        /\ fnName = "completeRound" =>
               IF pendingBefore # <<>>
               THEN history = Append(historyBefore, pendingBefore[1])
               ELSE history = historyBefore
        /\ fnName \in {"reset", "loadParameters"} => history = <<>>
        /\ fnName \notin {"runRound", "completeRound", "reset",
                          "loadParameters"} => history = historyBefore

\* completeRound has added the pending outcome behind an earlier entry
C15_Witness ==
    /\ StoreRunning
    /\ fnName = "completeRound"
    /\ pendingBefore # <<>>
    /\ Len(historyBefore) > 0
    /\ history = Append(historyBefore, pendingBefore[1])
    /\ history[1] # history[2]

\* completeRound ran with no outcome pending and added nothing
C15_WitnessNothingPending ==
    /\ StoreRunning
    /\ fnName = "completeRound"
    /\ pendingBefore = <<>>
    /\ history = historyBefore
    /\ currentPhase = "outcome"

(***************************************************************************)
(* resolveParams, part_000 lines 47-58, called on parameters and then on   *)
(* what it returned.                                                       *)
(***************************************************************************)
ResolveArguments ==
    {[DEFAULT_PARAMETERS EXCEPT !.w1 = w, !.w2 = 5 * CScale,
                                !.wLinked = (w = 5 * CScale),
                                !.sigma2 = s, !.sigmaLinked = (s = 1 * CScale),
                                !.investmentMode = m, !.I1 = i1, !.I2 = i2,
                                !.investmentLinked = (i1 = i2), !.T = T] :
        w \in {5 * CScale, 10 * CScale}, s \in {1 * CScale, 3 * CScale},
        m \in BOOLEAN, i1 \in {1 * CScale, 10 * CScale, 100 * CScale},
        i2 \in {1 * CScale, 10 * CScale, 100 * CScale},
        T \in {CScale \div 2, 2 * CScale}}

ResolveInit ==
    /\ GTOIdle
    /\ RoundIdle
    /\ SolverIdle
    /\ StoreIdle
    /\ fnName = "resolveParams"
    /\ fnArgs \in ResolveArguments
    /\ fnResult = <<>>

CallResolveParams ==
    /\ fnName = "resolveParams"
    /\ fnResult = <<>>
    /\ fnResult' = <<resolveParams(fnArgs)>>
    /\ UNCHANGED <<fnName, fnArgs>>
    /\ UNCHANGED exceptFn

\* resolveParams(resolveParams(params)): the returned record is the argument
CallResolveParamsAgain ==
    /\ fnName = "resolveParams"
    /\ fnResult # <<>>
    /\ fnName' = "resolveParams of resolved"
    /\ fnArgs' = fnResult[1]
    /\ fnResult' = <<resolveParams(fnResult[1])>>
    /\ UNCHANGED exceptFn

ResolveNext == CallResolveParams \/ CallResolveParamsAgain

SpecResolve == ResolveInit /\ [][ResolveNext]_vars

NumericFields ==
    {"w1", "w2", "sigma1", "sigma2", "T", "c_m", "V", "theta", "I1", "I2",
     "W1", "W2"}

\* C16: resolveParams is the identity when investmentMode is false; when it is
\* true it replaces w1, w2, sigma1, sigma2 by investmentToW and
\* investmentToSigma of I1 and I2 and leaves every other numeric field
\* unchanged; and resolving what it returned changes nothing.
C16_ResolveParams ==
    /\ (fnName = "resolveParams" /\ fnResult # <<>>) =>
        /\ ~fnArgs.investmentMode => fnResult[1] = fnArgs
        /\ fnArgs.investmentMode =>
            /\ fnResult[1].w1 = investmentToW(fnArgs.I1)
            /\ fnResult[1].w2 = investmentToW(fnArgs.I2)
            /\ fnResult[1].sigma1 = investmentToSigma(fnArgs.I1)
            /\ fnResult[1].sigma2 = investmentToSigma(fnArgs.I2)
            /\ \A f \in NumericFields \ {"w1", "w2", "sigma1", "sigma2"} :
                   fnResult[1][f] = fnArgs[f]
            /\ fnResult[1].investmentMode = fnArgs.investmentMode
    /\ fnName = "resolveParams of resolved" => fnResult[1] = fnArgs

\* investment-mode parameters whose manual w and sigma differ from the derived
\* ones have been resolved twice
C16_Witness ==
    /\ fnName = "resolveParams of resolved"
    /\ fnArgs.investmentMode
    /\ fnArgs.I1 # fnArgs.I2
    /\ fnArgs.w1 # DEFAULT_PARAMETERS.w1
    /\ fnArgs.w1 # fnArgs.w2
    /\ fnResult[1] = fnArgs

(***************************************************************************)
(* Properties of the iteration of solveGTO.  The iterates are computed     *)
(* again from the Parameters, for the passes made so far: Iterates[n] is   *)
(* the pair (I1, I2) at the start of iteration n, Iterates[n + 1] its      *)
(* damped update.                                                          *)
(***************************************************************************)
dampedUpdate(point) ==
    <<(bestResponse(point[2], params, TRUE) + point[1]) \div 2,
      (bestResponse(point[1], params, FALSE) + point[2]) \div 2>>

RECURSIVE iteratesFrom(_, _)
iteratesFrom(points, n) ==
    IF n = 0 THEN points
    ELSE iteratesFrom(Append(points, dampedUpdate(points[Len(points)])), n - 1)

Iterates == iteratesFrom(<< <<params.I1, params.I2>> >>, iterations)

\* the larger of the two players' changes in iteration n
changeIn(points, n) ==
    Max(Abs(points[n + 1][1] - points[n][1]),
        Abs(points[n + 1][2] - points[n][2]))

\* max(|BR1 - I1|, |BR2 - I2|) at a point
deviationAt(point) ==
    Max(Abs(bestResponse(point[2], params, TRUE) - point[1]),
        Abs(bestResponse(point[1], params, FALSE) - point[2]))

\* the first iteration whose changes are both below / at most the tolerance
firstBelow(points) ==
    IF \E n \in 1..(Len(points) - 1) : changeIn(points, n) < tolerance
    THEN CHOOSE n \in 1..(Len(points) - 1) :
             /\ changeIn(points, n) < tolerance
             /\ \A m \in 1..(n - 1) : ~(changeIn(points, m) < tolerance)
    ELSE maxIter

firstWithin(points) ==
    IF \E n \in 1..(Len(points) - 1) : changeIn(points, n) <= tolerance
    THEN CHOOSE n \in 1..(Len(points) - 1) :
             /\ changeIn(points, n) <= tolerance
             /\ \A m \in 1..(n - 1) : ~(changeIn(points, m) <= tolerance)
    ELSE maxIter

GTOReturned == pc = "done"

C17_WitnessAllPasses ==
    /\ GTOReturned
    /\ ~convergedIteration
    /\ result.iterations = maxIter

\* the pass that ended the iteration changed a player by exactly the tolerance
C17_WitnessAtTolerance ==
    /\ GTOReturned
    /\ convergedIteration
    /\ LET points == Iterates
       IN  changeIn(points, result.iterations) = tolerance

\* the deviations of the iterates 1..maxIter from a best response
deviations(points) == [n \in 1..maxIter |-> deviationAt(points[n])]

\* the earliest iterate with the smallest deviation
earliestBest(devs) ==
    CHOOSE n \in 1..maxIter :
        /\ \A m \in 1..maxIter : devs[n] <= devs[m]
        /\ \A m \in 1..(n - 1) : devs[m] > devs[n]

\* C20: when all 50 iterations run without meeting the tolerance, the point
\* that solveGTO rounds and verifies is the iterate, taken before its damped
\* update, with the smallest max(|BR1 - I1|, |BR2 - I2|) over all iterations,
\* the earliest one on ties; when the tolerance is met, it is the last damped
\* update.
C20_PointUsed ==
    GTOReturned =>
        LET points == Iterates
        IN  IF convergedIteration
            THEN <<result.rawI1, result.rawI2>> = points[result.iterations + 1]
            ELSE /\ result.iterations = maxIter
                 /\ <<result.rawI1, result.rawI2>> =
                        points[earliestBest(deviations(points))]

\* no pass settled, the point used is the best iterate, which is not the
\* first one, and a later, different iterate is as close to a best response
C20_Witness ==
    /\ GTOReturned
    /\ ~convergedIteration
    /\ <<result.rawI1, result.rawI2>> = <<bestI1, bestI2>>
    /\ <<bestI1, bestI2>> # <<params.I1, params.I2>>
    /\ LET points == Iterates
       IN  \E m \in 1..maxIter :
               /\ points[m] # <<bestI1, bestI2>>
               /\ deviationAt(points[m]) = bestDeviation

\* a pass settled and the point used is its damped update, not the iterate
\* before it
C20_WitnessSettled ==
    /\ GTOReturned
    /\ convergedIteration
    /\ <<result.rawI1, result.rawI2>> = Iterates[result.iterations + 1]
    /\ <<result.rawI1, result.rawI2>> # Iterates[result.iterations]

(***************************************************************************)
(* Properties of generateReasoning.                                        *)
(***************************************************************************)
Reasoned == fnName = "generateReasoning" /\ fnResult # <<>>

reasoningOf(i) ==
    IF i = 1 THEN fnResult[1].state1Analysis ELSE fnResult[1].state2Analysis

\* the category the decisions of player i put it in, with the player's own
\* cutoffs
decidedCategory(i) ==
    IF actors[i].majorAttackChoice THEN "attacked"
    ELSE IF actors[i].minorConflictChoice > 0 THEN "signaled"
    ELSE IF Ge(actors[i].privateCapability, attackCutoffNoSignalOf(i))
    THEN "attacking anyway"
    ELSE "stayed quiet"

\* C19: generateReasoning puts each player in exactly one of four categories
\* with the boundaries of the decisions: attacked iff the player took the
\* major action; otherwise signaled iff its signal is > 0; otherwise silent
\* but would attack iff K_i >= the player's own k*_i(0); otherwise silent and
\* held, with K_i below the player's own signaling cutoff; and the cutoffs
\* compared and quoted are the per-player ones of simulateDate2 and
\* simulateDate3.
C19_CategoriesMatchDecisions ==
    Reasoned =>
        \A i \in {1, 2} :
            /\ reasoningOf(i).category = decidedCategory(i)
            /\ reasoningOf(i).category \in {"attacked", "signaled"} =>
                   reasoningOf(i).cutoff = actors[i].attackCutoff
            /\ reasoningOf(i).category = "attacking anyway" =>
                   reasoningOf(i).cutoff = attackCutoffNoSignalOf(i)
            /\ reasoningOf(i).category = "stayed quiet" =>
                   /\ reasoningOf(i).cutoff = signalingCutoffOf(i)
                   /\ Lt(actors[i].privateCapability, signalingCutoffOf(i))

\* a silent player at or above its own k*(0), held back by the opponent's
\* signal, is said to have stayed quiet below the signaling cutoff
C19_WitnessStrongCalledWeak ==
    /\ Reasoned
    /\ \E i \in {1, 2} :
           /\ ~actors[i].majorAttackChoice
           /\ actors[i].minorConflictChoice = 0
           /\ Ge(actors[i].privateCapability, attackCutoffNoSignalOf(i))
           /\ reasoningOf(i).category = "stayed quiet"

\* a silent player below its own signaling cutoff is said to be attacking
\* anyway
C19_WitnessWeakCalledStrong ==
    /\ Reasoned
    /\ \E i \in {1, 2} :
           /\ ~actors[i].majorAttackChoice
           /\ actors[i].minorConflictChoice = 0
           /\ Lt(actors[i].privateCapability, signalingCutoffOf(i))
           /\ reasoningOf(i).category = "attacking anyway"

\* what the code does guarantee: with equal cutoffs for the two players the
\* categories are those of the decisions
C19_CategoriesMatchWhenSymmetric ==
    (Reasoned /\ attackCutoffNoSignalOf(1) = attackCutoffNoSignalOf(2)) =>
        \A i \in {1, 2} : reasoningOf(i).category = decidedCategory(i)

(***************************************************************************)
(* The core operations on a heap of objects.  An object is a record at an  *)
(* address of the heap, a reference is an address, an array is an object   *)
(* whose items are addresses.  A call is given the heap and the address of *)
(* its argument and returns the heap it leaves behind: an object literal   *)
(* with a spread is a new object, an assignment to a field changes the     *)
(* object at the address assigned through.                                 *)
(***************************************************************************)
\* an object literal that is written over the object it spreads
copyWith_InPlace(h, a, object) == <<[h EXCEPT ![a] = object], a>>

\* { ...h[a], field: value }: the heap with the new object, and its address
copyWith(h, a, object) == <<Append(h, object), Len(h) + 1>>

\* part_000 lines 47-58
resolveParamsOnHeap(h, a) ==
    IF ~h[a].investmentMode THEN <<h, a>>
    ELSE copyWith(h, a, resolveParams(h[a]))

\* part_000 lines 82-98: params, resolved, resolved.investmentMode = false
computeExpectedUtilityOnHeap(h, baseParams, Ii, Ij, isState1) ==
    LET built == copyWith(h, baseParams,
                     [h[baseParams] EXCEPT
                          !.investmentMode = TRUE,
                          !.I1 = IF isState1 THEN Ii ELSE Ij,
                          !.I2 = IF isState1 THEN Ij ELSE Ii])
        resolved == resolveParamsOnHeap(built[1], built[2])
    IN  [resolved[1] EXCEPT ![resolved[2]].investmentMode = FALSE]

\* a GameState after one round: its parameters at address 1, its two actors
\* at 2 and 3, the actors array at 4, an earlier outcome at 5, the history
\* array at 6 and the state itself at 7
GameStateOnHeap(p, K1, K2) ==
    << p,
       Actor(K2, 0, FALSE),
       Actor(K1, 0, FALSE),
       [items |-> <<2, 3>>],
       [round |-> 1, outcome |-> "peace", payoffs |-> <<0, 0>>],
       [items |-> <<5>>],
       [round |-> 2, parameters |-> 1, actors |-> 4, history |-> 6] >>

\* the call: the operation, the heap it is given, the equilibrium of the
\* parameters, and the draws and investments it is called with
HeapInit ==
    /\ GTOIdle
    /\ RoundIdle
    /\ SolverIdle
    /\ StoreIdle
    /\ fnName = "call"
    /\ \E p \in ResolveArguments :
       \E K \in {<<5 * CScale, 7 * CScale>>, <<6 * CScale, 1 * CScale>>} :
       \E I \in {<<100 * CScale, 1 * CScale>>, <<10 * CScale, 10 * CScale>>} :
       \E operation \in {"computeExpectedUtility", "solveGTO",
                          "simulateRound", "advanceRound"} :
           fnArgs = [operation |-> operation,
                     heap |-> GameStateOnHeap(p, K[1], K[2]),
                     equilibrium |-> Equilibrium(p, 2),
                     K1 |-> K[1], K2 |-> K[2], Ii |-> I[1], Ij |-> I[2]]
    /\ fnResult = <<>>

CallComputeExpectedUtility ==
    /\ fnName = "call"
    /\ fnArgs.operation = "computeExpectedUtility"
    /\ fnName' = "return"
    /\ fnResult' = <<computeExpectedUtilityOnHeap(fnArgs.heap, 1, fnArgs.Ii,
                                                  fnArgs.Ij, TRUE)>>
    /\ UNCHANGED fnArgs
    /\ UNCHANGED exceptFn

\* part_000 lines 213-298: params is read (214-215) and handed on to
\* computeExpectedUtility, once for each player here
CallSolveGTO ==
    /\ fnName = "call"
    /\ fnArgs.operation = "solveGTO"
    /\ fnName' = "return"
    /\ fnResult' =
           <<computeExpectedUtilityOnHeap(
                 computeExpectedUtilityOnHeap(fnArgs.heap, 1, fnArgs.heap[1].I1,
                                              fnArgs.heap[1].I2, TRUE),
                 1, fnArgs.heap[1].I2, fnArgs.heap[1].I1, FALSE)>>
    /\ UNCHANGED fnArgs
    /\ UNCHANGED exceptFn

\* engine.ts lines 73-91: resolveParams, then two actors spread from
\* state.actors; they are the last two objects of the heap
HeapSimulateDate1 ==
    /\ fnName = "call"
    /\ fnArgs.operation \in {"simulateRound", "advanceRound"}
    /\ fnName' = "date1"
    /\ LET h == resolveParamsOnHeap(fnArgs.heap, fnArgs.heap[7].parameters)[1]
           first == h[h[7].actors].items
       IN  fnResult' =
               <<copyWith(
                     copyWith(h, first[1],
                         [h[first[1]] EXCEPT !.privateCapability = fnArgs.K1])[1],
                     first[2],
                     [h[first[2]] EXCEPT !.privateCapability = fnArgs.K2])[1]>>
    /\ UNCHANGED fnArgs
    /\ UNCHANGED exceptFn

\* engine.ts lines 103-129: actors.map with a spread of each actor
HeapSimulateDate2 ==
    /\ fnName = "date1"
    /\ fnName' = "date2"
    /\ LET h == fnResult[1]
           n == Len(fnResult[1])
           made == simulateDate2(<<h[n - 1], h[n]>>, fnArgs.equilibrium)
       IN  fnResult' = <<copyWith(copyWith(h, n - 1, made[1])[1], n, made[2])[1]>>
    /\ UNCHANGED fnArgs
    /\ UNCHANGED exceptFn

\* engine.ts lines 140-166: resolveParams, then a spread of each actor
HeapSimulateDate3 ==
    /\ fnName = "date2"
    /\ fnName' = "date3"
    /\ LET h == fnResult[1]
           n == Len(fnResult[1])
           made == simulateDate3(h[h[7].parameters], <<h[n - 1], h[n]>>,
                                 fnArgs.equilibrium)
           resolved == resolveParamsOnHeap(h, h[7].parameters)[1]
       IN  fnResult' =
               <<copyWith(copyWith(resolved, n - 1, made[1])[1], n, made[2])[1]>>
    /\ UNCHANGED fnArgs
    /\ UNCHANGED exceptFn

\* engine.ts lines 299-313: determineOutcome and the RoundOutcome returned
HeapOutcome ==
    /\ fnName = "date3"
    /\ fnName' = IF fnArgs.operation = "simulateRound" THEN "return"
                 ELSE "outcome"
    /\ LET h == fnResult[1]
           n == Len(fnResult[1])
           made == determineOutcome(<<h[n - 1], h[n]>>, h[h[7].parameters])
       IN  fnResult' = <<Append(h, [round |-> h[7].round,
                                    outcome |-> made.outcome,
                                    payoffs |-> made.payoffs])>>
    /\ UNCHANGED fnArgs
    /\ UNCHANGED exceptFn

\* engine.ts lines 322-327: { ...state, round, history: [...state.history,
\* roundOutcome] }
HeapAdvanceRound ==
    /\ fnName = "outcome"
    /\ fnName' = "return"
    /\ LET h == fnResult[1]
           n == Len(fnResult[1])
           hist == copyWith(h, h[7].history,
                            [items |-> Append(h[h[7].history].items, n)])[1]
       IN  fnResult' =
               <<copyWith(hist, 7,
                          [hist[7] EXCEPT !.round = @ + 1,
                                          !.history = n + 1])[1]>>
    /\ UNCHANGED fnArgs
    /\ UNCHANGED exceptFn

HeapNext ==
    \/ CallComputeExpectedUtility
    \/ CallSolveGTO
    \/ HeapSimulateDate1
    \/ HeapSimulateDate2
    \/ HeapSimulateDate3
    \/ HeapOutcome
    \/ HeapAdvanceRound

SpecHeap == HeapInit /\ [][HeapNext]_vars

\* the operation has built objects, or has returned
HeapReached ==
    fnName \in {"date1", "date2", "date3", "outcome", "return"}

HeapReturned == fnName = "return"

\* C18: no core operation modifies the object it is given: after
\* computeExpectedUtility and solveGTO the caller's Parameters object is as it
\* was, investmentMode, I1 and I2 included, and after simulateRound and
\* advanceRound the GameState, its parameters, its actors and its history are
\* as they were; every object that existed before the call is unchanged.
C18_ArgumentsUnchanged ==
    HeapReached =>
        /\ Len(fnResult[1]) >= Len(fnArgs.heap)
        /\ \A a \in 1..Len(fnArgs.heap) : fnResult[1][a] = fnArgs.heap[a]

\* computeExpectedUtility was given investment-mode Parameters, and the object
\* whose investmentMode it cleared is a new one with the investments of the
\* call
C18_Witness ==
    /\ HeapReturned
    /\ fnArgs.operation = "computeExpectedUtility"
    /\ fnArgs.heap[1].investmentMode
    /\ fnArgs.heap[1].I1 # fnArgs.Ii
    /\ Len(fnResult[1]) = Len(fnArgs.heap) + 2
    /\ ~fnResult[1][Len(fnResult[1])].investmentMode
    /\ fnResult[1][Len(fnResult[1])].I1 = fnArgs.Ii
    /\ fnResult[1][1] = fnArgs.heap[1]

\* advanceRound returned a state with one more outcome in a new history
\* array, and new actors that differ from the ones it was given
C18_WitnessAdvanceRound ==
    /\ HeapReturned
    /\ fnArgs.operation = "advanceRound"
    /\ LET after == fnResult[1]
           state == after[Len(after)]
       IN  /\ state.round = 3
           /\ state.history # 6
           /\ Len(after[state.history].items) = 2
           /\ after[6].items = <<5>>
           /\ after[7].round = 2
           /\ after[Len(after) - 3].privateCapability # after[3].privateCapability

(***************************************************************************)
(* bestResponse (part_000 lines 128-165) called on its own and followed    *)
(* statement by statement: the grid search, then the golden-section loop   *)
(* one pass at a time, then the return.                                    *)
(***************************************************************************)
\* surfaces that peak at the upper end of the grid, next to the family Shape
EdgeShapes ==
    { [k |-> maxI - 1, off |-> OffHi, flip |-> FALSE, drop |-> DropMax],
      [k |-> maxI, off |-> 0, flip |-> FALSE, drop |-> DropMax] }

OpponentInvestments ==
    { 1 * IScale, (25 * IScale) \div 10, 50 * IScale, 100 * IScale }

BestResponseInit ==
    /\ GTOIdle
    /\ RoundIdle
    /\ SolverIdle
    /\ StoreIdle
    /\ fnName = "bestResponse"
    /\ \E Ij \in OpponentInvestments, sh \in Shape \cup EdgeShapes,
          isState1 \in BOOLEAN :
           fnArgs = [Ij |-> Ij, isState1 |-> isState1,
                     baseParams |->
                         [I1 |-> 10 * IScale, I2 |-> 10 * IScale,
                          shape1 |-> IF isState1 THEN sh
                                     ELSE [sh EXCEPT !.k = 0, !.flip = FALSE],
                          shape2 |-> IF isState1
                                     THEN [sh EXCEPT !.k = 0, !.flip = FALSE]
                                     ELSE sh]]
    /\ fnResult = <<>>

\* lines 136-149: the grid search and the interval of the refinement
BestResponseGrid ==
    /\ fnName = "bestResponse"
    /\ fnName' = "golden"
    /\ LET tab == [I \in minI..maxI |->
                      computeExpectedUtility(I * IScale, fnArgs.Ij,
                                             fnArgs.baseParams, fnArgs.isState1)]
           bestI == GridSearch(minI, maxI, tab)
       IN  fnResult' = <<[bestI |-> bestI,
                          lo |-> Max(minI, bestI - 1) * IScale,
                          hi |-> Min(maxI, bestI + 1) * IScale,
                          i |-> 0]>>
    /\ UNCHANGED fnArgs
    /\ UNCHANGED exceptFn

\* lines 152-162: one pass of the loop
BestResponseGolden ==
    /\ fnName = "golden"
    /\ fnResult[1].i < GoldenSteps
    /\ LET lo  == fnResult[1].lo
           hi  == fnResult[1].hi
           x1  == hi - ((hi - lo) * PhiDen) \div PhiNum
           x2  == lo + ((hi - lo) * PhiDen) \div PhiNum
           eu1 == computeExpectedUtility(x1, fnArgs.Ij, fnArgs.baseParams,
                                         fnArgs.isState1)
           eu2 == computeExpectedUtility(x2, fnArgs.Ij, fnArgs.baseParams,
                                         fnArgs.isState1)
       IN  fnResult' = IF eu1 > eu2
                       THEN <<[fnResult[1] EXCEPT !.hi = x2, !.i = @ + 1]>>
                       ELSE <<[fnResult[1] EXCEPT !.lo = x1, !.i = @ + 1]>>
    /\ UNCHANGED <<fnName, fnArgs>>
    /\ UNCHANGED exceptFn

\* line 164: return (lo + hi) / 2, once the loop condition i < 20 fails
BestResponseReturn ==
    /\ fnName = "golden"
    /\ ~(fnResult[1].i < GoldenSteps)
    /\ fnName' = "return"
    /\ fnResult' = <<[bestI |-> fnResult[1].bestI,
                      passes |-> fnResult[1].i,
                      value |-> (fnResult[1].lo + fnResult[1].hi) \div 2]>>
    /\ UNCHANGED fnArgs
    /\ UNCHANGED exceptFn

BestResponseNext ==
    \/ BestResponseGrid
    \/ BestResponseGolden
    \/ BestResponseReturn

SpecBestResponse == BestResponseInit /\ [][BestResponseNext]_vars

(***************************************************************************)
(* bestResponse.                                                           *)
(***************************************************************************)
BestResponseReturned == fnName = "return"

\* the expected utility of an integer investment in the call
gridUtility(I) ==
    computeExpectedUtility(I * IScale, fnArgs.Ij, fnArgs.baseParams,
                           fnArgs.isState1)

\* the smallest integer of the grid with the highest expected utility
bestGridPoint ==
    CHOOSE b \in minI..maxI :
        /\ \A I \in minI..maxI : gridUtility(I) <= gridUtility(b)
        /\ \A I \in minI..(b - 1) : gridUtility(I) < gridUtility(b)

\* C21: bestResponse returns a value in [1,100] that lies within one unit
\* of the smallest integer grid point with the highest expected utility,
\* inside [max(1, best-1), min(100, best+1)], after exactly 20 golden-section
\* passes; it is the value the solver's bestResponse gives for the same call.
C21_BestResponseNearBestGridPoint ==
    BestResponseReturned =>
        /\ fnResult[1].bestI = bestGridPoint
        /\ fnResult[1].passes = 20
        /\ fnResult[1].value >= 1 * IScale
        /\ fnResult[1].value <= 100 * IScale
        /\ fnResult[1].value >= Max(1, bestGridPoint - 1) * IScale
        /\ fnResult[1].value <= Min(100, bestGridPoint + 1) * IScale
        /\ Abs(fnResult[1].value - bestGridPoint * IScale) <= IScale
        /\ fnResult[1].value
               = bestResponse(fnArgs.Ij, fnArgs.baseParams, fnArgs.isState1)

\* several grid points tie for the highest utility and the value returned is
\* next to the smallest of them, away from the largest
C21_Witness ==
    /\ BestResponseReturned
    /\ \E I \in (bestGridPoint + 2)..maxI :
           gridUtility(I) = gridUtility(bestGridPoint)
    /\ fnResult[1].value # bestGridPoint * IScale
    /\ fnResult[1].passes = 20

\* the best grid point is the last of the grid, and the interval was cut at 100
C21_WitnessUpperEnd ==
    /\ BestResponseReturned
    /\ bestGridPoint = maxI
    /\ fnResult[1].value > (maxI - 1) * IScale
    /\ fnResult[1].value <= maxI * IScale

\* the optimum lies between two grid points and the value returned is not an
\* integer
C21_WitnessBetweenGridPoints ==
    /\ BestResponseReturned
    /\ fnResult[1].value % IScale # 0
    /\ gridUtility(bestGridPoint) > gridUtility(bestGridPoint + 1)

(***************************************************************************)
(* A signal and the major action in one round.                             *)
(***************************************************************************)
\* C22: a player who signalled in the round (y_i > 0) does not take the
\* major action in it: its capability is below its no-signal cutoff
\* k*_i(0), and the cutoff it faces at date 3, computed from the opponent's
\* signal y_j >= 0, is not below k*_i(0).
C22_SignalerNeverAttacks ==
    AttackDecided =>
        \A i \in {1, 2} :
            signal(i) > 0 =>
                /\ signal(3 - i) >= 0
                /\ capability(i) < attackCutoffNoSignalOf(i)
                /\ actors[i].attackCutoff >= attackCutoffNoSignalOf(i)
                /\ ~attacked(i)

\* both players signalled; the cutoff player 1 faces was raised by player 2's
\* signal above its no-signal cutoff, and neither attacks
C22_Witness ==
    /\ AttackDecided
    /\ signal(1) > 0
    /\ signal(2) > 0
    /\ actors[1].attackCutoff > attackCutoffNoSignalOf(1)
    /\ actors[1].attackCutoff # Infinity
    /\ ~attacked(1)
    /\ ~attacked(2)

\* player 1 signalled against a silent opponent who attacks: the cutoff
\* player 1 faces is its no-signal cutoff exactly
C22_WitnessSilentOpponent ==
    /\ AttackDecided
    /\ signal(1) > 0
    /\ signal(2) = 0
    /\ attacked(2)
    /\ actors[1].attackCutoff = attackCutoffNoSignalOf(1)
    /\ ~attacked(1)

(***************************************************************************)
(* The step-by-step round of the store.                                    *)
(***************************************************************************)
lastCalled == fnName

\* C23: in every reachable state of the store pendingOutcome is non-null
\* exactly when currentPhase is not 'idle'.
C23_PendingIffInProgress ==
    (pendingOutcome # <<>>) <=> (currentPhase # "idle")

\* advancePhase was called in phase 'idle' with nothing pending: the phase is
\* now the first one of the order and there is still no pending outcome
C23_WitnessAdvancedFromIdle ==
    /\ lastCalled = "advancePhase"
    /\ pendingBefore = <<>>
    /\ historyBefore = <<>>
    /\ currentPhase = "date1"
    /\ pendingOutcome = <<>>

\* the half of C23 that the store keeps: an outcome is pending only while a
\* round is in progress
C23_PendingOnlyInProgress ==
    pendingOutcome # <<>> => currentPhase # "idle"

\* the store with a caller that keeps calling advancePhase
SpecStoreStepping == SpecStore /\ WF_vars(AdvancePhase)

\* C24: whenever currentPhase is not 'idle', further advancePhase calls
\* return it to 'idle'.
C24_ReturnsToIdle ==
    (currentPhase # "idle") ~> (currentPhase = "idle")

\* advancePhase was called in phase 'outcome' with nothing pending, and the
\* phase is still 'outcome'
C24_WitnessStuck ==
    /\ lastCalled = "completeRound"
    /\ pendingBefore = <<>>
    /\ currentPhase = "outcome"
    /\ pendingOutcome = <<>>
    /\ ~ENABLED <<AdvancePhase>>_vars

\* C25: in step-by-step mode advancePhase appends the round's outcome to the
\* history only when it is called in phase 'outcome', also when
\* updateParameter has changed investmentMode while the round was in
\* progress.
C25_AppendedInPhaseOutcome ==
    [][(AdvancePhase /\ history' # history) => currentPhase = "outcome"]_vars

\* a round that was started in investment mode was completed from phase
\* 'date0' after investment mode had been switched off: its outcome is in
\* the history and no phase from date1 to outcome was ever current
C25_WitnessCompletedFromDate0 ==
    /\ lastCalled = "completeRound"
    /\ phaseBefore = "date0"
    /\ pendingBefore # <<>>
    /\ indexOf(phaseOrder(storeParameters), phaseBefore) = -1
    /\ history = Append(historyBefore, pendingBefore[1])
    /\ currentPhase = "idle"

\* what the store keeps of C25: advancePhase moves a phase to its successor
\* in date0, date1, date2, date3, outcome, and startRound runs in 'idle' only
C25_PhasesInOrder ==
    /\ lastCalled = "advancePhase" =>
           <<phaseBefore, currentPhase>> \in
               {<<"idle", "date0">>, <<"idle", "date1">>, <<"date0", "date1">>,
                <<"date1", "date2">>, <<"date2", "date3">>,
                <<"date3", "outcome">>}
    /\ lastCalled = "startRound" =>
           /\ phaseBefore = "idle"
           /\ currentPhase \in {"date0", "date1"}

(***************************************************************************)
(* Round numbers in the history of the store.                              *)
(***************************************************************************)
\* C26: the round numbers recorded in the history are strictly increasing,
\* and the round counter is greater than every one of them.
C26_RoundNumbersIncrease ==
    /\ \A i \in 1..(Len(history) - 1) : history[i].round < history[i + 1].round
    /\ \A i \in 1..Len(history) : history[i].round < round

\* runRound ran while the outcome of a round begun by startRound was pending,
\* and completeRound then added the pending outcome: two entries of the
\* history carry the same round number
C26_WitnessSameRoundTwice ==
    /\ lastCalled = "completeRound"
    /\ pendingBefore # <<>>
    /\ Len(historyBefore) = 1
    /\ Len(history) = 2
    /\ history[1].round = history[2].round
    /\ round > history[2].round

(***************************************************************************)
(* The stored result of the GTO solver.                                    *)
(***************************************************************************)
\* C27: whenever a GTO result is stored, the investments of the parameters
\* are the investments of that result.
C27_ResultMatchesParameters ==
    gtoResult # <<>> =>
        /\ storeParameters.I1 = gtoResult[1].I1
        /\ storeParameters.I2 = gtoResult[1].I2

\* loadParameters replaced the parameters and the result of the solver is
\* still stored, with investments that are not those of the parameters
C27_WitnessStaleAfterLoad ==
    /\ lastCalled = "loadParameters"
    /\ gtoResult # <<>>
    /\ storeParameters = DEFAULT_PARAMETERS
    /\ gtoResult[1].I1 # storeParameters.I1

\* what the store keeps of C27: updateParameter clears the result, and the
\* callback of the solver stores a result that matches the parameters it wrote
C27_ClearedByUpdateParameter ==
    /\ lastCalled = "updateParameter" => gtoResult = <<>>
    /\ lastCalled = "runGTOSolver callback" =>
           /\ gtoResult # <<>>
           /\ storeParameters.I1 = gtoResult[1].I1
           /\ storeParameters.I2 = gtoResult[1].I2

C28_OtherPairsTrack ==
    /\ storeParameters.wLinked => storeParameters.w1 = storeParameters.w2
    /\ storeParameters.sigmaLinked =>
           storeParameters.sigma1 = storeParameters.sigma2
    /\ storeParameters.wealthLinked => storeParameters.W1 = storeParameters.W2

(***************************************************************************)
(* runGTOSolver and its deferred callback.                                 *)
(***************************************************************************)
\* C29: gtoSolving is true at every moment between a call of runGTOSolver
\* and the completion of its callback, that is, as long as a callback is
\* scheduled and has not run, also when calls overlap.
C29_SolvingWhilePending ==
    gtoTimers > 0 => gtoSolving

\* two calls overlapped; the callback of one has run and cleared gtoSolving
\* while the callback of the other is still scheduled
C29_WitnessSpinnerOffWhilePending ==
    /\ lastCalled = "runGTOSolver callback"
    /\ gtoTimers = 1
    /\ ~gtoSolving
    /\ gtoResult # <<>>

\* what the store keeps of C29: a callback writes I1 and I2 of its result
\* into the parameters it finds, leaves every other parameter as it finds
\* it, and clears gtoSolving
C29_CallbackKeepsParameters ==
    [][GTOSolverCallback =>
          /\ storeParameters' = [storeParameters EXCEPT !.I1 = gtoResult'[1].I1,
                                                        !.I2 = gtoResult'[1].I2]
          /\ ~gtoSolving']_vars

(***************************************************************************)
(* determineOutcome with the two players exchanged.                        *)
(***************************************************************************)
\* the call with the two actors, W1/W2 and I1/I2 exchanged
exchangedActors == <<actors[2], actors[1]>>

exchangedParameters ==
    [parameters EXCEPT !.W1 = parameters.W2, !.W2 = parameters.W1,
                       !.I1 = parameters.I2, !.I2 = parameters.I1]

exchangedOutcome(o) ==
    [outcome |-> CASE o.outcome = "dsa_victory_1" -> "dsa_victory_2"
                   [] o.outcome = "dsa_victory_2" -> "dsa_victory_1"
                   [] OTHER -> o.outcome,
     payoffs |-> <<o.payoffs[2], o.payoffs[1]>>]

\* C30: for T > 0 the two decisive-advantage conditions never hold
\* together, and determineOutcome of the exchanged players is the exchanged
\* result: payoffs swapped, dsa_victory_1 and dsa_victory_2 exchanged, peace
\* and catastrophe unchanged.
C30_ExchangeSymmetry ==
    (Decided /\ parameters.T > 0) =>
        /\ ~(HasDSA(capability(1), capability(2), parameters.T)
               /\ HasDSA(capability(2), capability(1), parameters.T))
        /\ determineOutcome(exchangedActors, exchangedParameters)
               = exchangedOutcome(roundOutcome)

\* player 1 won with a decisive advantage after a minor conflict, the
\* investments of the players differ, and the exchanged call gives player 2
\* the victory and the same two payoffs the other way round
C30_Witness ==
    /\ Decided
    /\ roundOutcome.outcome = "dsa_victory_1"
    /\ signal(1) > 0
    /\ parameters.investmentMode
    /\ parameters.I1 # parameters.I2
    /\ roundOutcome.payoffs[1] > 0
    /\ determineOutcome(exchangedActors, exchangedParameters).outcome
           = "dsa_victory_2"
    /\ determineOutcome(exchangedActors, exchangedParameters).payoffs
           = <<0, roundOutcome.payoffs[1]>>

\* equal capabilities and an attack: catastrophe either way round
C30_WitnessEqualCapabilities ==
    /\ Decided
    /\ capability(1) = capability(2)
    /\ attacked(1)
    /\ roundOutcome.outcome = "catastrophe"
    /\ determineOutcome(exchangedActors, exchangedParameters).outcome
           = "catastrophe"

====
